---------------------------- MODULE Spec2Model ----------------------------
(***************************************************************************)
(* Model of the incremental response renderer of the chat assistant        *)
(* (src/bot/telegram/handlers/messages.py, src/bot/utils/formatting.py).   *)
(*                                                                         *)
(* Texts are sequences of one-character strings.  The lengths of the       *)
(* program are scaled down so that every length-driven branch is taken     *)
(* within a few chunks: the ceiling of 3900 characters becomes 12, the     *)
(* margins of 100 and 200 become 2 and 4 (the reopening marker of four     *)
(* characters still fits the larger margin, as in the program), the        *)
(* confirmation threshold of 100 becomes 3.                                *)
(***************************************************************************)
EXTENDS Integers, Sequences, FiniteSets, TLC

(***************************************************************************)
(* Bounds of the model.                                                    *)
(***************************************************************************)
MaxChunks == 3
MaxFaults == 1
\* the longest text handed to split_message and find_split_point
MaxTextLen == 6

(***************************************************************************)
(* Program constants (scaled, see above).                                  *)
(***************************************************************************)
SAFE_MESSAGE_LENGTH == 12
OverflowMargin == 2
SplitMargin == 4
FINAL_CONTENT_MIN_LENGTH == 3
SplitThinkingOverhead == 1
\* 0.5 s, the throttle interval of the main loop, in quarter seconds
GateTicks == 2
\* the time between two chunks, in quarter seconds
Delays == {0, 1, 2}

\* The backtick is written "'" here: the parser accepts no backtick in a string.
BT == "'"
FENCE == <<BT, BT, BT>>
REOPEN == <<BT, BT, BT, "\n">>
Apology == <<"S", "o", "r", "y", ".">>
NoResponse == <<"N", "o", ".">>
ThinkingStatus == <<"T">>

MarkdownSpecial == {"_", "*", "[", "]", "(", ")", "~", BT, ">", "#", "+",
                    "-", "=", "|", "{", "}", ".", "!"}

(***************************************************************************)
(* String primitives of the host language.                                 *)
(***************************************************************************)
Min(a, b) == IF a < b THEN a ELSE b

SetMax(S) == CHOOSE x \in S : \A y \in S : y <= x

\* text[:n]
Take(s, n) == SubSeq(s, 1, Min(n, Len(s)))

\* text[n:]
Drop(s, n) == SubSeq(s, Min(n, Len(s)) + 1, Len(s))

IsSpace(c) == c \in {" ", "\n"}

RECURSIVE rstrip(_)
rstrip(s) ==
    IF s = <<>> THEN s
    ELSE IF IsSpace(s[Len(s)]) THEN rstrip(SubSeq(s, 1, Len(s) - 1))
    ELSE s

RECURSIVE lstrip(_)
lstrip(s) ==
    IF s = <<>> THEN s
    ELSE IF IsSpace(s[1]) THEN lstrip(Tail(s))
    ELSE s

strip(s) == lstrip(rstrip(s))

\* pat occurs in s at the 1-based position i
MatchAt(s, i, pat) ==
    /\ i >= 1
    /\ i + Len(pat) - 1 <= Len(s)
    /\ SubSeq(s, i, i + Len(pat) - 1) = pat

\* str.rfind: the highest 0-based index of pat in s, -1 when absent
rfind(s, pat) ==
    LET I == {i \in 1..Len(s) : MatchAt(s, i, pat)}
    IN  IF I = {} THEN -1 ELSE SetMax(I) - 1

\* str.count("```"): occurrences that do not overlap, left to right
RECURSIVE CountFenceFrom(_, _)
CountFenceFrom(s, i) ==
    IF i + 2 > Len(s) THEN 0
    ELSE IF MatchAt(s, i, FENCE) THEN 1 + CountFenceFrom(s, i + 3)
    ELSE CountFenceFrom(s, i + 1)

CountFence(s) == CountFenceFrom(s, 1)

\* str.split("\n")
RECURSIVE SplitLines(_)
SplitLines(s) ==
    LET I == {i \in 1..Len(s) : s[i] = "\n"}
    IN  IF I = {} THEN <<s>>
        ELSE LET k == CHOOSE i \in I : \A j \in I : i <= j
             IN  <<SubSeq(s, 1, k - 1)>> \o SplitLines(SubSeq(s, k + 1, Len(s)))

RECURSIVE Concat(_)
Concat(parts) ==
    IF parts = <<>> THEN <<>> ELSE Head(parts) \o Concat(Tail(parts))

\* sum(len(p) for p in parts)
RECURSIVE SumLen(_)
SumLen(parts) ==
    IF parts = <<>> THEN 0 ELSE Len(Head(parts)) + SumLen(Tail(parts))

IsPrefix(p, s) == Len(p) <= Len(s) /\ SubSeq(s, 1, Len(p)) = p

(***************************************************************************)
(* Text formatting (src/bot/utils/formatting.py).                          *)
(***************************************************************************)
RECURSIVE EscapeFrom(_, _)
EscapeFrom(s, i) ==
    IF i > Len(s) THEN <<>>
    ELSE IF s[i] = "\\" \/ s[i] \in MarkdownSpecial
         THEN <<"\\", s[i]>> \o EscapeFrom(s, i + 1)
         ELSE <<s[i]>> \o EscapeFrom(s, i + 1)

_escape_markdown_v2_full(text) == EscapeFrom(text, 1)

\* telegramify_markdown.markdownify, a third-party converter: fence markers
\* and the text between them pass through, every MarkdownV2-significant
\* character outside a fenced block is escaped with a backslash.
RECURSIVE MarkdownifyFrom(_, _, _)
MarkdownifyFrom(s, i, inCode) ==
    IF i > Len(s) THEN <<>>
    ELSE IF MatchAt(s, i, FENCE)
         THEN FENCE \o MarkdownifyFrom(s, i + 3, ~inCode)
    ELSE IF ~inCode /\ (s[i] = "\\" \/ s[i] \in MarkdownSpecial)
         THEN <<"\\", s[i]>> \o MarkdownifyFrom(s, i + 1, inCode)
    ELSE <<s[i]>> \o MarkdownifyFrom(s, i + 1, inCode)

\* What the converter makes of a fence left open at the end of the text is
\* not fixed by the repository: it either leaves the text as it is or appends
\* a closing marker.  Both converters are modelled; the choice is made once,
\* in Init, and kept for the generation.
VARIABLE markdownify_closes_fence

convert_to_telegram_markdown(text) ==
    IF markdownify_closes_fence /\ CountFence(text) % 2 = 1
    THEN MarkdownifyFrom(text, 1, FALSE) \o <<"\n">> \o FENCE
    ELSE MarkdownifyFrom(text, 1, FALSE)

RECURSIVE QuoteLines(_)
QuoteLines(lines) ==
    IF lines = <<>> THEN <<>>
    ELSE IF Len(lines) = 1 THEN <<">">> \o lines[1]
    ELSE <<">">> \o lines[1] \o <<"\n">> \o QuoteLines(Tail(lines))

format_thinking_expanded(thinking) ==
    IF thinking = <<>> THEN <<>>
    ELSE QuoteLines(SplitLines(_escape_markdown_v2_full(thinking)))

format_thinking_collapsed(thinking) ==
    IF thinking = <<>> THEN <<>>
    ELSE <<"*", "*">>
         \o QuoteLines(SplitLines(_escape_markdown_v2_full(thinking)))
         \o <<"|", "|">>

format_thinking_with_content(thinking, content_) ==
    IF thinking = <<>> THEN convert_to_telegram_markdown(content_)
    ELSE format_thinking_collapsed(thinking) \o <<"\n", "\n">>
         \o convert_to_telegram_markdown(content_)

\* a resolver that also accepts a boundary at max_length // 3
FindSplitPointInclusive(text, max_length) ==
    LET chunk == Take(text, max_length)
        Ok(sep) == rfind(chunk, sep) >= max_length \div 3
        After(sep) == rfind(chunk, sep) + Len(sep)
    IN  IF Ok(<<"\n", "\n">>) THEN After(<<"\n", "\n">>)
        ELSE IF Ok(<<"\n">>) THEN After(<<"\n">>)
        ELSE IF Ok(<<".", " ">>) THEN After(<<".", " ">>)
        ELSE IF Ok(<<" ">>) THEN After(<<" ">>)
        ELSE max_length

find_split_point(text, max_length) ==
    LET chunk == Take(text, max_length)
        Ok(sep) == rfind(chunk, sep) > max_length \div 3
        After(sep) == rfind(chunk, sep) + Len(sep)
    IN  IF Ok(<<"\n", "\n">>) THEN After(<<"\n", "\n">>)
        ELSE IF Ok(<<"\n">>) THEN After(<<"\n">>)
        ELSE IF Ok(<<".", " ">>) THEN After(<<".", " ">>)
        ELSE IF Ok(<<" ">>) THEN After(<<" ">>)
        ELSE max_length

\* a splitter that trims the part on both sides
SplitThinkingStripped(thinking, max_length) ==
    LET estimated_raw_limit == (max_length * 8) \div 10 - SplitThinkingOverhead
        split_pos == find_split_point(thinking, estimated_raw_limit)
    IN  IF thinking = <<>> THEN << <<>>, <<>> >>
        ELSE IF Len(thinking) <= estimated_raw_limit THEN <<strip(thinking), <<>> >>
        ELSE <<strip(Take(thinking, split_pos)), lstrip(Drop(thinking, split_pos))>>

\* returns <<part_to_send, remaining>>
split_thinking(thinking, max_length) ==
    LET estimated_raw_limit == (max_length * 8) \div 10 - SplitThinkingOverhead
        split_pos == find_split_point(thinking, estimated_raw_limit)
    IN  IF thinking = <<>> THEN << <<>>, <<>> >>
        ELSE IF Len(thinking) <= estimated_raw_limit THEN <<thinking, <<>> >>
        ELSE <<rstrip(Take(thinking, split_pos)), lstrip(Drop(thinking, split_pos))>>

\* an early return that trims the text
WholeStripped(text) == <<strip(text)>>

\* split_message, the early return: the list of the text as it is
split_message_whole(text) == <<text>>

\* a loop body that goes on from max_length instead of from split_pos
CutContinuesAtLimit(remaining, max_length) ==
    LET split_pos == find_split_point(remaining, max_length)
    IN  <<rstrip(Take(remaining, split_pos)), lstrip(Drop(remaining, max_length))>>

\* a loop body that trims nothing at the cut
CutWithoutTrim(remaining, max_length) ==
    LET split_pos == find_split_point(remaining, max_length)
    IN  <<Take(remaining, split_pos), Drop(remaining, split_pos)>>

\* split_message, one iteration of the loop on a remaining text longer than
\* max_length: <<the part appended, the new remaining text>>
split_message_cut(remaining, max_length) ==
    LET split_pos == find_split_point(remaining, max_length)
    IN  <<rstrip(Take(remaining, split_pos)), lstrip(Drop(remaining, split_pos))>>


(***************************************************************************)
(* State of one generation (StreamingState), the platform's record of      *)
(* what was delivered, and the control position of                         *)
(* generate_and_stream_response.                                           *)
(***************************************************************************)
VARIABLES
    piece_size,             \* the size of the pieces the model streams in this generation
    store,                  \* the messages of the conversation store written by the caller
    show_thinking,          \* argument of generate_and_stream_response
    content, reasoning,
    sent_parts, sent_thinking_parts, sent_message_ids,
    thinking_finalized, in_code_block, thinking_msg_replaced,
    pending_tool, current_status_text, final_content_confirmed,
    last_update,            \* 0: never set; 1: set to a wall-clock time
    tool_counts,
    draft,                  \* the text last shown on the preview surface
    draft_shows,            \* what the call that wrote it showed: none, answer, other
    outbox,                 \* permanent messages delivered, in order
    moved,                  \* positions of content moved into reasoning
    pc,                     \* streaming, finalizing, returned, raised, cancelled
    error,                  \* none, stream, step: why the except branch ran
    finalized,              \* _finalize_response has been entered
    chunks, faults,         \* chunks consumed, send failures injected
    clock,                  \* quarter seconds since last_update was written, capped
    since_pass,             \* quarter seconds since the latest render pass started, capped
    rendered,               \* the latest step of the loop ran a render pass
    rendered_at,            \* the clock at which the latest render pass started
    pass_gap,               \* since_pass at the start of the latest render pass
    exc,                    \* the exception that left a step: its kind, the call that
                            \* raised it, what the platform answered to that send
    oversize                \* a text longer than the ceiling was handed to the platform

\* One call of split_message(text, max_length) and of find_split_point, run
\* on their own.
VARIABLES
    sm_text, sm_max_length, \* the arguments
    sm_remaining, sm_parts, \* the locals of split_message
    sm_pc,                  \* idle, input, loop, done
    sm_split_pos,           \* what find_split_point(text, max_length) returned; -1: not called
    sm_first                \* the list a first call returned, when its segment is split again

split_vars == <<sm_text, sm_max_length, sm_remaining, sm_parts, sm_pc,
                sm_split_pos, sm_first>>

\* no call of split_message is under way
SplitIdle ==
    /\ sm_text = <<>>
    /\ sm_max_length = 0
    /\ sm_remaining = <<>>
    /\ sm_parts = <<>>
    /\ sm_pc = "idle"
    /\ sm_split_pos = -1
    /\ sm_first = <<>>

\* One iteration of _iter_with_timeout over a stream, run on its own.
VARIABLES
    it_stream,              \* the chunks the underlying stream hands out, in order
    it_ends,                \* how the stream ends: "stop" (StopAsyncIteration) or "raise"
    it_tasks,               \* every __anext__ task created so far
    pending_task,           \* the local pending_task: 0 for None, or an index of it_tasks
    it_timer,               \* the timeout of the asyncio.wait under way has elapsed
    it_pc,                  \* idle, loop, wait, yield, returned, raised
    it_events               \* what the wrapper has yielded so far

iter_vars == <<it_stream, it_ends, it_tasks, pending_task, it_timer, it_pc, it_events>>

\* no iteration of _iter_with_timeout is under way
IterIdle ==
    /\ it_stream = <<>>
    /\ it_ends = "stop"
    /\ it_tasks = <<>>
    /\ pending_task = 0
    /\ it_timer = FALSE
    /\ it_pc = "idle"
    /\ it_events = <<>>

\* The surface id of one StreamingState, and the clock it is drawn from.
VARIABLES
    id_clock,               \* int(time.time() * 1000), as wraps * DraftIdModulus + ms
    draft_id,               \* StreamingState.draft_id
    id_preview,             \* the draft_id the latest preview was sent under; -1: none yet
    id_rotations,           \* calls of new_draft_id so far
    id_elapses              \* times the clock was seen to advance

id_vars == <<id_clock, draft_id, id_preview, id_rotations, id_elapses>>

\* no StreamingState is followed for its surface id
DraftIdIdle ==
    /\ id_clock = [wraps |-> 0, ms |-> 0]
    /\ draft_id = 0
    /\ id_preview = -1
    /\ id_rotations = 0
    /\ id_elapses = 0

\* The media group buffers, the handlers that fill them and the flush tasks.
VARIABLES
    mg_groups,              \* _MEDIA_GROUPS: for each key a buffer of mg_heap, or 0
    mg_lock,                \* who holds _MEDIA_GROUPS_LOCK
    mg_heap,                \* every MediaGroupBuffer object created so far
    mg_calls,               \* the calls of _queue_media_group, one per photo message
    mg_flushes,             \* the _flush_media_group tasks
    mg_handled              \* the calls of _handle_incoming_payload made by the flush tasks

mg_vars == <<mg_groups, mg_lock, mg_heap, mg_calls, mg_flushes, mg_handled>>

Unlocked == [kind |-> "none", id |-> 0]

MediaKeys == {"g1", "g2"}

\* no media group is buffered and no handler or flush task is running
MediaIdle ==
    /\ mg_groups = [k \in MediaKeys |-> 0]
    /\ mg_lock = Unlocked
    /\ mg_heap = <<>>
    /\ mg_calls = <<>>
    /\ mg_flushes = <<>>
    /\ mg_handled = <<>>

\* One invite code in the database and the sessions that redeem it.
VARIABLES
    inv_max_uses,           \* the row's max_uses
    inv_current_uses,       \* the row's current_uses, as committed
    inv_admitted,           \* the users committed with invited_by_code = this code
    inv_writer,             \* the session whose write transaction is open; 0: none
    inv_sessions            \* for each redemption: where it is, and its copy of current_uses

inv_vars == <<inv_max_uses, inv_current_uses, inv_admitted, inv_writer, inv_sessions>>

\* no redemption is under way
InviteIdle ==
    /\ inv_max_uses = 0
    /\ inv_current_uses = 0
    /\ inv_admitted = 0
    /\ inv_writer = 0
    /\ inv_sessions = <<>>

aux_vars == <<iter_vars, id_vars, mg_vars, inv_vars>>

AuxIdle == IterIdle /\ DraftIdIdle /\ MediaIdle /\ InviteIdle

vars == <<aux_vars, split_vars, markdownify_closes_fence, piece_size, store, show_thinking, content, reasoning, sent_parts, sent_thinking_parts,
          sent_message_ids, thinking_finalized, in_code_block,
          thinking_msg_replaced, pending_tool, current_status_text,
          final_content_confirmed, last_update, tool_counts, draft, draft_shows, outbox,
          moved, pc, error, finalized, chunks, faults, clock, since_pass,
          rendered, rendered_at, pass_gap, exc, oversize>>

ToolNames == {"w", "x"}
NoTool == "none"

\* The chunks the model backend may yield (StreamChunk): answer text,
\* reasoning text, or a tool invocation.
\* A generation streams long pieces (two of them pass the ceiling), short
\* pieces (a whole answer stays below the confirmation threshold, and a
\* reasoning block and an answer fit one message) or, after a short
\* reasoning, a big piece of answer (one of them reaches the overflow
\* threshold).
ContentTexts ==
    IF piece_size = "long"
    THEN {<<"a", "a", "a", "a", "a", "a", "a", "a">>,
          <<".", ".", ".", ".", ".", ".", ".", ".">>,
          FENCE,
          <<" ">>}
    ELSE IF piece_size = "short"
    THEN {<<"a", ".">>, <<" ">>}
    ELSE {<<"a", "a", "a", "a", "a", "a", "a", "a", "a", "a">>}
ReasoningTexts ==
    IF piece_size = "long" THEN {<<"r", "r", ".", "r", "r">>} ELSE {<<"r">>}

ContentChunk(t) ==
    [content |-> t, reasoning |-> <<>>, is_tool_use |-> FALSE, tool_name |-> ""]
ReasoningChunk(t) ==
    [content |-> <<>>, reasoning |-> t, is_tool_use |-> FALSE, tool_name |-> ""]
ToolChunk(n) ==
    [content |-> <<>>, reasoning |-> <<>>, is_tool_use |-> TRUE, tool_name |-> n]

\* Outcomes of one bot.send_message call: accepted, TelegramBadRequest with
\* a parse message, TelegramRetryAfter, any other failure.
Outcomes == {"ok", "parse", "retry_after", "hard"}

\* The working copy of the state a handler runs on: the variables, the
\* outcomes the platform will give to the next send_message calls (script)
\* and the exception in flight (exc).
State ==
    [show_thinking |-> show_thinking, content |-> content,
     reasoning |-> reasoning, sent_parts |-> sent_parts,
     sent_thinking_parts |-> sent_thinking_parts,
     sent_message_ids |-> sent_message_ids,
     thinking_finalized |-> thinking_finalized,
     in_code_block |-> in_code_block,
     thinking_msg_replaced |-> thinking_msg_replaced,
     pending_tool |-> pending_tool,
     current_status_text |-> current_status_text,
     final_content_confirmed |-> final_content_confirmed,
     last_update |-> last_update, tool_counts |-> tool_counts,
     draft |-> draft, draft_shows |-> draft_shows, outbox |-> outbox,
     moved |-> moved,
     oversize |-> oversize, clock |-> clock, rendered_at |-> rendered_at,
     since_pass |-> since_pass, rendered |-> rendered, pass_gap |-> pass_gap,
     script |-> <<>>, exc |-> "none", where |-> "none", rejected |-> <<>>,
     calls |-> 0, refused |-> 0]

sent_content_len(st) == SumLen(st.sent_parts)

sent_thinking_len(st) == SumLen(st.sent_thinking_parts)

current_thinking(st) == Drop(st.reasoning, sent_thinking_len(st))

current_preview(st) ==
    IF st.content # <<>> THEN Drop(st.content, sent_content_len(st)) ELSE <<>>

Digit(n) == <<"1", "2", "3", "4", "5", "6", "7", "8", "9">>[n]

\* "(Used <tool>)\n"
UsedMarker(tool) == <<"(", tool, ")", "\n">>

_get_tool_status_text(tool_name, count) ==
    <<"#", tool_name>> \o (IF count > 1 THEN <<"x", Digit(count)>> ELSE <<>>)

(***************************************************************************)
(* Delivery: bot.send_message, bot.send_message_draft and the two          *)
(* fallback wrappers.                                                      *)
(***************************************************************************)
Format(tag, s) ==
    CASE tag = "md" -> convert_to_telegram_markdown(s)
      [] tag = "esc" -> _escape_markdown_v2_full(s)
      [] OTHER -> s

\* the binary search of _fit_formatted_chunk: the length of best_raw
RECURSIVE FitSearch(_, _, _, _, _, _)
FitSearch(text, max_length, tag, low, high, best) ==
    IF low > high THEN best
    ELSE LET mid == (low + high) \div 2
         IN  IF Len(Format(tag, Take(text, mid))) <= max_length
             THEN FitSearch(text, max_length, tag, mid + 1, high, mid)
             ELSE FitSearch(text, max_length, tag, low, mid - 1, best)

\* a gate that lets every chunk through
GateAlwaysOpen(elapsed) == TRUE

\* time.time() - state.last_update < 0.5 is false: the loop goes on to render
GateOpen(elapsed) == elapsed >= GateTicks

\* a fitter that does not trim: the whole text, formatted
FitWhole(text, max_length, tag) == <<text, Format(tag, text), <<>> >>

\* returns <<raw, formatted, remaining>>
_fit_formatted_chunk(text, max_length, tag) ==
    LET Result(best) ==
            IF best = 0
            THEN <<Take(text, 1), Format(tag, Take(text, 1)), Drop(text, 1)>>
            ELSE <<Take(text, best), Format(tag, Take(text, best)), Drop(text, best)>>
    IN  IF text = <<>> THEN << <<>>, <<>>, <<>> >>
        ELSE Result(FitSearch(text, max_length, tag, 1, Len(text), 0))

\* One call of bot.send_message.  meta names the handler and what the text
\* is; lo is the 0-based content offset of raw[1] and floor the offset below
\* which the text is not answer text (a reopening marker).
bot_send_message(st, text, mode, raw, meta) ==
    LET outcome == IF st.script = <<>> THEN "ok" ELSE Head(st.script)
        rest == IF st.script = <<>> THEN <<>> ELSE Tail(st.script)
        pos == IF meta.kind = "answer"
               THEN {meta.lo + j : j \in 1..Len(raw)}
                    \cap (meta.floor + 1 .. meta.hi)
               ELSE IF meta.kind = "combined" /\ raw = meta.asked
               THEN meta.floor + 1 .. meta.hi
               ELSE {}
        handed == [st EXCEPT !.script = rest, !.calls = @ + 1,
                             !.oversize = @ \/ Len(text) > SAFE_MESSAGE_LENGTH]
    IN  IF outcome = "ok"
        THEN [handed EXCEPT
                !.outbox = Append(@, [text |-> text, mode |-> mode,
                                      raw |-> raw, asked |-> meta.asked,
                                      kind |-> meta.kind, by |-> meta.by,
                                      after |-> st.rejected, pos |-> pos])]
        ELSE [handed EXCEPT !.exc = outcome, !.where = meta.by,
                            !.rejected = Append(@, outcome), !.refused = @ + 1]

\* One call of bot.send_message_draft: the preview surface shows the text,
\* or the call raises.
bot_send_message_draft(st, text) ==
    LET outcome == IF st.script = <<>> THEN "ok" ELSE Head(st.script)
        rest == IF st.script = <<>> THEN <<>> ELSE Tail(st.script)
        handed == [st EXCEPT !.script = rest, !.calls = @ + 1,
                             !.oversize = @ \/ Len(text) > SAFE_MESSAGE_LENGTH]
    IN  IF outcome = "ok"
        THEN [handed EXCEPT !.draft = text, !.draft_shows = "other"]
        ELSE [handed EXCEPT !.exc = outcome, !.where = "draft",
                            !.rejected = Append(@, outcome), !.refused = @ + 1]

\* the message_id of the message just delivered
LastMessageId(st) == Len(st.outbox)

\* a sender that makes the MarkdownV2 attempt only
SendWithoutFallback(st, text, convert, meta) ==
    LET tag == IF convert THEN "md" ELSE "id"
        Send(fit) ==
            bot_send_message([st EXCEPT !.rejected = <<>>], fit[2], "MarkdownV2",
                             fit[1], meta)
    IN  IF st.exc # "none" THEN st
        ELSE Send(IF Len(Format(tag, text)) > SAFE_MESSAGE_LENGTH
                  THEN _fit_formatted_chunk(text, SAFE_MESSAGE_LENGTH, tag)
                  ELSE <<text, Format(tag, text), <<>> >>)

_send_with_markdown_fallback(st, text, convert, meta) ==
    LET tag == IF convert THEN "md" ELSE "id"
        \* the second send, of the escaped text
        Retry(first, escaped) ==
            bot_send_message([first EXCEPT !.exc = "none", !.where = "none"],
                             escaped[2], "MarkdownV2", escaped[1], meta)
        \* except TelegramBadRequest with "parse" or "too long"
        Fallback(first, raw_to_send) ==
            IF first.exc = "parse"
            THEN Retry(first, _fit_formatted_chunk(raw_to_send, SAFE_MESSAGE_LENGTH,
                                                   "esc"))
            ELSE first
        \* fit = <<raw_to_send, formatted, _>>
        Send(fit) ==
            Fallback(bot_send_message([st EXCEPT !.rejected = <<>>], fit[2],
                                      "MarkdownV2", fit[1], meta),
                     fit[1])
        Fit(formatted) ==
            IF Len(formatted) > SAFE_MESSAGE_LENGTH
            THEN _fit_formatted_chunk(text, SAFE_MESSAGE_LENGTH, tag)
            ELSE <<text, formatted, <<>> >>
    IN  IF st.exc # "none" THEN st ELSE Send(Fit(Format(tag, text)))

\* formatted = <<>> with has_formatted FALSE stands for formatted=None.
_send_draft_with_fallback(st, text, has_formatted, formatted) ==
    LET tag == IF has_formatted THEN "id" ELSE "md"
        \* the second call, with the escaped text
        Retry(first, escaped) ==
            bot_send_message_draft([first EXCEPT !.exc = "none", !.where = "none"],
                                   escaped[2])
        \* except TelegramBadRequest with "parse" or "too long"
        Fallback(first, raw_to_send) ==
            IF first.exc = "parse"
            THEN Retry(first, _fit_formatted_chunk(raw_to_send, SAFE_MESSAGE_LENGTH,
                                                   "esc"))
            ELSE first
        \* fit = <<raw_to_send, formatted_text, _>>
        Send(fit) ==
            Fallback(bot_send_message_draft([st EXCEPT !.rejected = <<>>], fit[2]),
                     fit[1])
        Fit(formatted_text) ==
            IF Len(formatted_text) > SAFE_MESSAGE_LENGTH
            THEN _fit_formatted_chunk(text, SAFE_MESSAGE_LENGTH, tag)
            ELSE <<text, formatted_text, <<>> >>
    IN  IF st.exc # "none" THEN st
        ELSE Send(Fit(IF has_formatted THEN formatted ELSE Format(tag, text)))

ThinkingMeta(by, asked) ==
    [kind |-> "thinking", by |-> by, asked |-> asked, lo |-> 0, floor |-> 0,
     hi |-> 0]

\* a recorder that appends an id whether or not the send went through
RecordIdUnconfirmed(st) ==
    [st EXCEPT !.sent_message_ids = Append(@, LastMessageId(st))]

\* append the id of the message just sent, unless the send raised
RecordId(st) ==
    IF st.exc = "none"
    THEN [st EXCEPT !.sent_message_ids = Append(@, LastMessageId(st))]
    ELSE st

(***************************************************************************)
(* The handlers of the main loop.  Each takes the working state and        *)
(* returns it changed; a handler entered with an exception in flight is    *)
(* not run (the exception left the loop body).                             *)
(***************************************************************************)
_handle_tool_use(st, chunk) ==
    LET step_content == current_preview(st)
        from == sent_content_len(st)
        moved_ == IF strip(step_content) # <<>>
                  THEN [st EXCEPT
                          !.reasoning = @ \o <<"\n">> \o strip(step_content) \o <<"\n">>,
                          !.sent_parts = Append(@, step_content),
                          !.moved = @ \cup (from + 1 .. Len(st.content))]
                  ELSE st
        \* state.current_status_text = new_text, reached when the draft did not raise
        Shown(d, new_text) ==
            IF d.exc # "none" THEN d ELSE [d EXCEPT !.current_status_text = new_text]
        Status(s2, new_text, thinking) ==
            Shown(IF s2.show_thinking /\ s2.reasoning # <<>> /\ thinking # <<>>
                  THEN _send_draft_with_fallback(
                           s2, format_thinking_expanded(thinking \o <<"\n">> \o new_text),
                           TRUE, format_thinking_expanded(thinking \o <<"\n">> \o new_text))
                  ELSE _send_draft_with_fallback(s2, new_text, FALSE, <<>>),
                  new_text)
        Counted(s2, count) ==
            Status(s2, _get_tool_status_text(chunk.tool_name, count),
                   current_thinking(s2))
        Count(s1) ==
            Counted([s1 EXCEPT !.pending_tool = chunk.tool_name,
                               !.final_content_confirmed = FALSE,
                               !.thinking_msg_replaced = FALSE,
                               !.tool_counts[chunk.tool_name] = @ + 1],
                    s1.tool_counts[chunk.tool_name] + 1)
    IN  Count(moved_)

\* a chunk handler that writes the marker and leaves pending_tool set
HandleChunkKeepsPendingTool(st, chunk) ==
    LET Status(d) ==
            IF d.exc # "none" THEN d
            ELSE [d EXCEPT !.current_status_text = ThinkingStatus]
        marked == [st EXCEPT !.reasoning = @ \o UsedMarker(st.pending_tool)]
        s1 == IF chunk.reasoning # <<>> /\ st.pending_tool # NoTool
              THEN IF /\ ~marked.show_thinking
                      /\ ~marked.thinking_msg_replaced
                      /\ marked.current_status_text # ThinkingStatus
                   THEN Status(_send_draft_with_fallback(marked, ThinkingStatus,
                                                         FALSE, <<>>))
                   ELSE marked
              ELSE st
        Tool(s2) == IF chunk.is_tool_use THEN _handle_tool_use(s2, chunk) ELSE s2
        Accumulate(s2) ==
            IF s2.exc # "none" THEN s2
            ELSE Tool([s2 EXCEPT !.reasoning = @ \o chunk.reasoning,
                                 !.content = @ \o chunk.content])
    IN  Accumulate(s1)

_handle_chunk(st, chunk) ==
    LET Status(d) ==
            IF d.exc # "none" THEN d
            ELSE [d EXCEPT !.current_status_text = ThinkingStatus]
        marked == [st EXCEPT !.reasoning = @ \o UsedMarker(st.pending_tool),
                             !.pending_tool = NoTool]
        s1 == IF chunk.reasoning # <<>> /\ st.pending_tool # NoTool
              THEN IF /\ ~marked.show_thinking
                      /\ ~marked.thinking_msg_replaced
                      /\ marked.current_status_text # ThinkingStatus
                   THEN Status(_send_draft_with_fallback(marked, ThinkingStatus,
                                                         FALSE, <<>>))
                   ELSE marked
              ELSE st
        Tool(s2) == IF chunk.is_tool_use THEN _handle_tool_use(s2, chunk) ELSE s2
        Accumulate(s2) ==
            IF s2.exc # "none" THEN s2
            ELSE Tool([s2 EXCEPT !.reasoning = @ \o chunk.reasoning,
                                 !.content = @ \o chunk.content])
    IN  Accumulate(s1)

_handle_thinking_overflow(st) ==
    LET thinking == current_thinking(st)
        thinking_expanded == format_thinking_expanded(thinking)
        \* the draft of what is left
        Draft(s1, left, shown) ==
            IF s1.exc # "none" \/ left = <<>> THEN s1
            ELSE _send_draft_with_fallback(s1, shown, TRUE, shown)
        Preview(s1, left) ==
            Draft(s1, left, Take(format_thinking_expanded(left), SAFE_MESSAGE_LENGTH))
        Record(sent, part_to_send) ==
            IF sent.exc # "none" THEN sent
            ELSE [RecordId(sent) EXCEPT
                    !.sent_thinking_parts = Append(@, part_to_send)]
        Send(part_to_send, collapsed) ==
            Record(_send_with_markdown_fallback(
                       st, collapsed, FALSE,
                       ThinkingMeta("thinking_overflow", collapsed)),
                   part_to_send)
        \* sp = <<part_to_send, remaining>>
        Overflow(sp) ==
            IF /\ Len(thinking_expanded) >= SAFE_MESSAGE_LENGTH - OverflowMargin
               /\ sp[1] # <<>>
            THEN Preview(Send(sp[1], format_thinking_collapsed(sp[1])), sp[2])
            ELSE Preview(st, thinking)
    IN  IF st.exc # "none" \/ thinking = <<>> THEN st
        ELSE Overflow(split_thinking(thinking, SAFE_MESSAGE_LENGTH - SplitMargin))

_handle_content_overflow(st) ==
    LET preview == current_preview(st)
        split_point == find_split_point(preview, SAFE_MESSAGE_LENGTH - SplitMargin)
        head == rstrip(Take(preview, split_point))
        part == IF st.in_code_block THEN REOPEN \o head ELSE head
        ends_mid_block == CountFence(part) % 2 = 1
        from == sent_content_len(st)
        meta == [kind |-> "answer", by |-> "content_overflow", asked |-> part,
                 lo |-> from - (Len(part) - Len(head)), floor |-> from,
                 hi |-> Len(st.content)]
        finalize == st.show_thinking /\ st.reasoning # <<>> /\ ~st.thinking_finalized
        remaining_thinking == current_thinking(st)
        collapsed == format_thinking_collapsed(remaining_thinking)
        Record(c2) ==
            IF c2.exc = "none"
            THEN [RecordId(c2) EXCEPT !.in_code_block = ends_mid_block,
                                      !.sent_parts = Append(@, part),
                                      !.last_update = 1, !.clock = 0]
            ELSE c2
        \* except TelegramRetryAfter: one retry, as plain text
        Retry(c1) ==
            Record(IF c1.exc = "retry_after"
                   THEN bot_send_message([c1 EXCEPT !.exc = "none", !.where = "none"],
                                         part, "plain", part, meta)
                   ELSE c1)
        SendPart(t2) ==
            IF t2.exc # "none" THEN t2
            ELSE Retry(_send_with_markdown_fallback(t2, part, TRUE, meta))
        Finalized(t1) ==
            SendPart(IF finalize /\ t1.exc = "none"
                     THEN [t1 EXCEPT !.thinking_finalized = TRUE]
                     ELSE t1)
    IN  IF st.exc # "none" THEN st
        ELSE IF Len(preview) < SAFE_MESSAGE_LENGTH - OverflowMargin THEN st
        ELSE IF head = <<>> THEN st
        ELSE Finalized(IF finalize /\ remaining_thinking # <<>>
                       THEN RecordId(_send_with_markdown_fallback(
                                st, collapsed, FALSE,
                                ThinkingMeta("content_overflow", collapsed)))
                       ELSE st)

\* a draft update that recomputes the confirmation from the preview in hand
UpdateContentDraftUnlatched(st) ==
    LET preview == current_preview(st)
        confirmed == Len(strip(preview)) >= FINAL_CONTENT_MIN_LENGTH
        s1 == [st EXCEPT !.final_content_confirmed = confirmed]
        draft_text == Take(IF st.in_code_block THEN REOPEN \o preview ELSE preview,
                           SAFE_MESSAGE_LENGTH)
        thinking == current_thinking(st)
        combined == format_thinking_with_content(thinking, preview)
        \* the call returned: the surface shows the answer preview
        Replaced(d) ==
            IF d.exc # "none" THEN d
            ELSE [d EXCEPT !.thinking_msg_replaced = TRUE, !.draft_shows = "answer"]
    IN  IF st.exc # "none" THEN st
        ELSE IF strip(preview) = <<>> \/ ~confirmed THEN s1
        ELSE IF ~st.show_thinking \/ st.thinking_finalized
        THEN Replaced(_send_draft_with_fallback(
                          s1, draft_text, TRUE,
                          convert_to_telegram_markdown(draft_text)))
        ELSE IF thinking # <<>> /\ Len(combined) <= SAFE_MESSAGE_LENGTH
        THEN Replaced(_send_draft_with_fallback(s1, combined, TRUE, combined))
        ELSE s1

\* a draft update that shows every non-blank preview, confirmed or not
UpdateContentDraftUnconfirmed(st) ==
    LET preview == current_preview(st)
        confirmed == \/ st.final_content_confirmed
                     \/ Len(strip(preview)) >= FINAL_CONTENT_MIN_LENGTH
        s1 == [st EXCEPT !.final_content_confirmed = confirmed]
        draft_text == Take(IF st.in_code_block THEN REOPEN \o preview ELSE preview,
                           SAFE_MESSAGE_LENGTH)
        thinking == current_thinking(st)
        combined == format_thinking_with_content(thinking, preview)
        Replaced(d) ==
            IF d.exc # "none" THEN d
            ELSE [d EXCEPT !.thinking_msg_replaced = TRUE, !.draft_shows = "answer"]
    IN  IF st.exc # "none" THEN st
        ELSE IF strip(preview) = <<>> THEN s1
        ELSE IF ~st.show_thinking \/ st.thinking_finalized
        THEN Replaced(_send_draft_with_fallback(
                          s1, draft_text, TRUE,
                          convert_to_telegram_markdown(draft_text)))
        ELSE IF thinking # <<>> /\ Len(combined) <= SAFE_MESSAGE_LENGTH
        THEN Replaced(_send_draft_with_fallback(s1, combined, TRUE, combined))
        ELSE s1

_update_content_draft(st) ==
    LET preview == current_preview(st)
        confirmed == \/ st.final_content_confirmed
                     \/ Len(strip(preview)) >= FINAL_CONTENT_MIN_LENGTH
        s1 == [st EXCEPT !.final_content_confirmed = confirmed]
        draft_text == Take(IF st.in_code_block THEN REOPEN \o preview ELSE preview,
                           SAFE_MESSAGE_LENGTH)
        thinking == current_thinking(st)
        combined == format_thinking_with_content(thinking, preview)
        \* the call returned: the surface shows the answer preview
        Replaced(d) ==
            IF d.exc # "none" THEN d
            ELSE [d EXCEPT !.thinking_msg_replaced = TRUE, !.draft_shows = "answer"]
    IN  IF st.exc # "none" THEN st
        ELSE IF strip(preview) = <<>> \/ ~confirmed THEN s1
        ELSE IF ~st.show_thinking \/ st.thinking_finalized
        THEN Replaced(_send_draft_with_fallback(
                          s1, draft_text, TRUE,
                          convert_to_telegram_markdown(draft_text)))
        ELSE IF thinking # <<>> /\ Len(combined) <= SAFE_MESSAGE_LENGTH
        THEN Replaced(_send_draft_with_fallback(s1, combined, TRUE, combined))
        ELSE s1

_refresh_thinking_draft(st) ==
    LET thinking == current_thinking(st)
        shown == Take(format_thinking_expanded(thinking), SAFE_MESSAGE_LENGTH)
        Updated(d) ==
            IF d.exc # "none" THEN d ELSE [d EXCEPT !.last_update = 1, !.clock = 0]
    IN  IF st.final_content_confirmed THEN st
        ELSE IF st.show_thinking /\ thinking # <<>> /\ ~st.thinking_finalized
        THEN Updated(_send_draft_with_fallback(st, shown, TRUE, shown))
        ELSE Updated(_send_draft_with_fallback(st, st.current_status_text, FALSE, <<>>))

\* One iteration of the loop of generate_and_stream_response for a chunk;
\* gate: at least 0.5 s have passed since last_update.
LoopBody(st, chunk, gate) ==
    LET Updated(s3) ==
            IF s3.exc # "none" THEN s3
            ELSE [s3 EXCEPT !.last_update = 1, !.clock = 0]
        Thinking(s1) ==
            IF /\ s1.show_thinking /\ ~s1.thinking_finalized
               /\ s1.pending_tool = NoTool /\ ~s1.final_content_confirmed
            THEN _handle_thinking_overflow(s1)
            ELSE s1
        Gate(s1) ==
            IF ~gate \/ s1.exc # "none" THEN s1
            ELSE Updated(_update_content_draft(_handle_content_overflow(
                     Thinking([s1 EXCEPT !.rendered = TRUE, !.rendered_at = s1.clock,
                                         !.pass_gap = s1.since_pass,
                                         !.since_pass = 0]))))
    IN  Gate(_handle_chunk(st, chunk))

(***************************************************************************)
(* Finalization.                                                           *)
(***************************************************************************)
\* The parts of _split_message_for_markdown, each with the 0-based offset
\* (off) of its first character in the text that is split.
RECURSIVE SplitFrom(_, _, _)
SplitFrom(remaining, max_length, off) ==
    LET fit == _fit_formatted_chunk(remaining, max_length, "md")
        raw == fit[1]
        rest == lstrip(fit[3])
    IN  IF remaining = <<>> \/ raw = <<>> THEN <<>>
        ELSE <<[part |-> rstrip(raw), off |-> off]>>
             \o SplitFrom(rest, max_length, off + Len(remaining) - Len(rest))

_split_message_for_markdown(text, max_length) == SplitFrom(text, max_length, 0)

\* the loop of _send_final_content over parts; base is the content offset of
\* the first character of the text that was split
RECURSIVE SendParts(_, _, _, _, _)
SendParts(st, parts, base, floor, hi) ==
    IF parts = <<>> \/ st.exc # "none" THEN st
    ELSE LET p == Head(parts)
             meta == [kind |-> "answer", by |-> "final_content", asked |-> p.part,
                      lo |-> base + p.off, floor |-> floor, hi |-> hi]
         IN  SendParts(RecordId(_send_with_markdown_fallback(st, p.part, TRUE, meta)),
                       Tail(parts), base, floor, hi)

\* from: the content offset of remaining[1]; hi: the length of the content
_send_final_content(st, remaining, remaining_thinking, from, hi) ==
    LET text == IF st.in_code_block THEN REOPEN \o remaining ELSE remaining
        Flush(parts) ==
            SendParts(IF /\ st.sent_parts = <<>>
                         /\ ~(st.show_thinking /\ remaining_thinking # <<>>)
                      THEN _send_draft_with_fallback(
                               st, parts[1].part, TRUE,
                               convert_to_telegram_markdown(parts[1].part))
                      ELSE st,
                      parts, from - (Len(text) - Len(remaining)), from, hi)
    IN  Flush(_split_message_for_markdown(text, SAFE_MESSAGE_LENGTH))

\* returns the state and the answer text that remains to be sent
_send_final_thinking(st, remaining, remaining_thinking, from, hi) ==
    LET combined == format_thinking_with_content(remaining_thinking, remaining)
        collapsed == format_thinking_collapsed(remaining_thinking)
        together == strip(remaining) # <<>> /\ Len(combined) <= SAFE_MESSAGE_LENGTH
        both == _send_with_markdown_fallback(
                    _send_draft_with_fallback(st, combined, TRUE, combined),
                    combined, FALSE,
                    [kind |-> "combined", by |-> "final_thinking", asked |-> combined,
                     lo |-> from, floor |-> from, hi |-> hi])
        alone == _send_with_markdown_fallback(
                     st, collapsed, FALSE, ThinkingMeta("final_thinking", collapsed))
    IN  IF together
        THEN [st |-> RecordId(both), remaining |-> <<>>]
        ELSE [st |-> RecordId(alone), remaining |-> remaining]

_finalize_response(st) ==
    LET final_content == IF st.content # <<>> THEN st.content ELSE NoResponse
        from == IF sent_content_len(st) < Len(final_content)
                THEN sent_content_len(st) ELSE 0
        remaining == Drop(final_content, from)
        remaining_thinking ==
            IF st.reasoning # <<>> THEN current_thinking(st) ELSE <<>>
        hi == Len(st.content)
        \* r: the state and the answer text left after the reasoning went out
        Content(r) ==
            IF r.st.exc = "none" /\ strip(r.remaining) # <<>>
            THEN _send_final_content(r.st, r.remaining, remaining_thinking, from, hi)
            ELSE r.st
    IN  Content(IF /\ st.show_thinking /\ remaining_thinking # <<>>
                   /\ ~st.thinking_finalized
                THEN _send_final_thinking(st, remaining, remaining_thinking, from, hi)
                ELSE [st |-> st, remaining |-> remaining])

(***************************************************************************)
(* The environment: what the platform answers to the send_message and      *)
(* send_message_draft calls of one step.  A script lists the answers to    *)
(* the first calls; calls past its end are accepted.  Scripts are built    *)
(* call by call, so every answer of a script is the answer to a call the   *)
(* step does make.  The runs of a step are its results under the scripts   *)
(* that refuse at most budget calls.                                       *)
(***************************************************************************)
Accepted(k) == [i \in 1..k |-> "ok"]

\* the scripts that refuse one more call, among the calls a run made
OneMoreRefused(script, calls, budget) ==
    IF budget = 0 THEN {}
    ELSE {script \o Accepted(k - Len(script) - 1) \o <<f>> :
            k \in (Len(script) + 1)..calls, f \in Outcomes \ {"ok"}}

\* the first status draft
RECURSIVE StartRuns(_, _, _)
StartRuns(st, script, budget) ==
    LET More(r) ==
            {r} \cup UNION {StartRuns(st, sc, budget - 1) :
                              sc \in OneMoreRefused(script, r.calls, budget)}
    IN  More(_send_draft_with_fallback([st EXCEPT !.script = script],
                                       ThinkingStatus, FALSE, <<>>))

\* one iteration of the loop for a chunk
RECURSIVE LoopRuns(_, _, _, _, _)
LoopRuns(st, chunk, gate, script, budget) ==
    LET More(r) ==
            {r} \cup UNION {LoopRuns(st, chunk, gate, sc, budget - 1) :
                              sc \in OneMoreRefused(script, r.calls, budget)}
    IN  More(LoopBody([st EXCEPT !.script = script], chunk, gate))

\* one iteration of the loop for a timeout
RECURSIVE TimeoutRuns(_, _, _)
TimeoutRuns(st, script, budget) ==
    LET More(r) ==
            {r} \cup UNION {TimeoutRuns(st, sc, budget - 1) :
                              sc \in OneMoreRefused(script, r.calls, budget)}
    IN  More(_refresh_thinking_draft([st EXCEPT !.script = script]))

\* the final flush
RECURSIVE FinalRuns(_, _, _)
FinalRuns(st, script, budget) ==
    LET More(r) ==
            {r} \cup UNION {FinalRuns(st, sc, budget - 1) :
                              sc \in OneMoreRefused(script, r.calls, budget)}
    IN  More(_finalize_response([st EXCEPT !.script = script]))

Commit(st) ==
    /\ reasoning' = st.reasoning
    /\ sent_parts' = st.sent_parts
    /\ sent_thinking_parts' = st.sent_thinking_parts
    /\ sent_message_ids' = st.sent_message_ids
    /\ thinking_finalized' = st.thinking_finalized
    /\ in_code_block' = st.in_code_block
    /\ thinking_msg_replaced' = st.thinking_msg_replaced
    /\ pending_tool' = st.pending_tool
    /\ current_status_text' = st.current_status_text
    /\ final_content_confirmed' = st.final_content_confirmed
    /\ last_update' = st.last_update
    /\ tool_counts' = st.tool_counts
    /\ draft' = st.draft
    /\ draft_shows' = st.draft_shows
    /\ outbox' = st.outbox
    /\ moved' = st.moved
    /\ oversize' = st.oversize
    /\ clock' = st.clock
    /\ rendered_at' = st.rendered_at
    /\ since_pass' = st.since_pass
    /\ rendered' = st.rendered
    /\ pass_gap' = st.pass_gap
    /\ exc' = IF st.exc = "none" THEN exc
              ELSE [kind |-> st.exc, where |-> st.where, rejected |-> st.rejected]

\* the except branch of generate_and_stream_response: an exception of a
\* step inside the try is logged and the apology replaces the content
Caught(st, on) ==
    /\ Commit(st)
    /\ content' = IF st.exc = "none" THEN st.content ELSE Apology
    /\ pc' = IF st.exc = "none" THEN on ELSE "finalizing"
    /\ error' = IF st.exc = "none" THEN error ELSE "step"
    /\ faults' = faults + st.refused

\* the working state when d quarter seconds have passed
At(d) == [State EXCEPT !.clock = Min(@ + d, GateTicks),
                       !.since_pass = Min(@ + d, GateTicks), !.rendered = FALSE]

Chunks ==
    {ContentChunk(t) : t \in ContentTexts}
    \cup {ToolChunk(n) : n \in ToolNames}
    \cup (IF show_thinking THEN {ReasoningChunk(t) : t \in ReasoningTexts} ELSE {})

RendererInit ==
    /\ markdownify_closes_fence \in BOOLEAN
    /\ piece_size \in {"long", "short", "big"}
    /\ store = <<>>
    /\ show_thinking \in BOOLEAN
    /\ content = <<>>
    /\ reasoning = <<>>
    /\ sent_parts = <<>>
    /\ sent_thinking_parts = <<>>
    /\ sent_message_ids = <<>>
    /\ thinking_finalized = FALSE
    /\ in_code_block = FALSE
    /\ thinking_msg_replaced = FALSE
    /\ pending_tool = NoTool
    /\ current_status_text = ThinkingStatus
    /\ final_content_confirmed = FALSE
    /\ last_update = 0
    /\ tool_counts = [n \in ToolNames |-> 0]
    /\ draft = <<>>
    /\ draft_shows = "none"
    /\ outbox = <<>>
    /\ moved = {}
    /\ pc = "start"
    /\ error = "none"
    /\ finalized = FALSE
    /\ chunks = 0
    /\ faults = 0
    /\ exc = [kind |-> "none", where |-> "none", rejected |-> <<>>]
    /\ oversize = FALSE
    /\ clock = GateTicks
    /\ rendered_at = GateTicks
    /\ since_pass = GateTicks
    /\ rendered = FALSE
    /\ pass_gap = GateTicks

Init == RendererInit /\ SplitIdle /\ AuxIdle

\* the first status draft
Start ==
    /\ pc = "start"
    /\ \E r \in StartRuns(State, <<>>, MaxFaults - faults) : Caught(r, "streaming")
    /\ UNCHANGED <<aux_vars, split_vars, markdownify_closes_fence, piece_size, store, show_thinking,
                   finalized, chunks>>

\* a chunk arrives and the loop body runs; an exception of a step inside
\* the loop is caught by the except branch
ChunkArrives ==
    /\ pc = "streaming"
    /\ chunks < MaxChunks
    /\ \E chunk \in Chunks, d \in Delays :
         \E r \in LoopRuns(At(d), chunk, GateOpen(At(d).clock), <<>>,
                           MaxFaults - faults) :
           Caught(r, "streaming")
    /\ chunks' = chunks + 1
    /\ UNCHANGED <<aux_vars, split_vars, markdownify_closes_fence, piece_size, store, show_thinking,
                   finalized>>

\* no chunk for THINKING_REFRESH_INTERVAL
Timeout ==
    /\ pc = "streaming"
    /\ \E r \in TimeoutRuns(At(GateTicks), <<>>, MaxFaults - faults) :
         Caught(r, "streaming")
    /\ UNCHANGED <<aux_vars, split_vars, markdownify_closes_fence, piece_size, store, show_thinking,
                   finalized, chunks>>

\* the stream is exhausted
StreamEnd ==
    /\ pc = "streaming"
    /\ pc' = "finalizing"
    /\ UNCHANGED <<aux_vars, split_vars, markdownify_closes_fence, piece_size, store, show_thinking, content, reasoning, sent_parts,
                   sent_thinking_parts, sent_message_ids, thinking_finalized,
                   in_code_block, thinking_msg_replaced, pending_tool,
                   current_status_text, final_content_confirmed, last_update,
                   tool_counts, draft, draft_shows, outbox, moved, error, finalized, chunks,
                   faults, exc, oversize, clock, since_pass,
                   rendered, rendered_at, pass_gap>>

\* the stream raises: the except branch substitutes the apology
StreamError ==
    /\ pc = "streaming"
    /\ content' = Apology
    /\ error' = "stream"
    /\ pc' = "finalizing"
    /\ UNCHANGED <<aux_vars, split_vars, markdownify_closes_fence, piece_size, store, show_thinking, reasoning, sent_parts, sent_thinking_parts,
                   sent_message_ids, thinking_finalized, in_code_block,
                   thinking_msg_replaced, pending_tool, current_status_text,
                   final_content_confirmed, last_update, tool_counts, draft, draft_shows,
                   outbox, moved, finalized, chunks, faults, exc, oversize, clock, since_pass,
                   rendered, rendered_at, pass_gap>>

\* the consuming task is cancelled while it awaits the next chunk:
\* CancelledError is no Exception, the except branch does not catch it
Cancel ==
    /\ pc = "streaming"
    /\ pc' = "cancelled"
    /\ UNCHANGED <<aux_vars, split_vars, markdownify_closes_fence, piece_size, store, show_thinking, content, reasoning, sent_parts,
                   sent_thinking_parts, sent_message_ids, thinking_finalized,
                   in_code_block, thinking_msg_replaced, pending_tool,
                   current_status_text, final_content_confirmed, last_update,
                   tool_counts, draft, draft_shows, outbox, moved, error, finalized, chunks,
                   faults, exc, oversize, clock, since_pass,
                   rendered, rendered_at, pass_gap>>

\* _finalize_response, outside the try: its exceptions leave the function
Finalize ==
    LET Step(st) ==
            /\ Commit(st)
            /\ pc' = IF st.exc = "none" THEN "returned" ELSE "raised"
            /\ faults' = faults + st.refused
    IN  /\ pc = "finalizing"
        /\ \E r \in FinalRuns(State, <<>>, MaxFaults - faults) : Step(r)
        /\ finalized' = TRUE
        /\ UNCHANGED <<aux_vars, split_vars, markdownify_closes_fence, piece_size, store, show_thinking,
                       content, error, chunks>>

\* StreamingResult.first_message_id; 0 stands for None
first_message_id(ids) == IF ids # <<>> THEN ids[1] ELSE 0

\* the caller stores the result of a generation that returned:
\* repository.add_message(session, conv.id, "assistant", result.content,
\*                        message_id=result.first_message_id)
add_message ==
    /\ pc = "returned"
    /\ store' = Append(store, [role |-> "assistant", content |-> content,
                               message_id |-> first_message_id(sent_message_ids)])
    /\ pc' = "stored"
    /\ UNCHANGED <<aux_vars, split_vars, markdownify_closes_fence, piece_size, show_thinking, content,
                   reasoning, sent_parts, sent_thinking_parts, sent_message_ids,
                   thinking_finalized, in_code_block, thinking_msg_replaced,
                   pending_tool, current_status_text, final_content_confirmed,
                   last_update, tool_counts, draft, draft_shows, outbox, moved, error,
                   finalized, chunks, faults, exc, oversize, clock, since_pass,
                   rendered, rendered_at, pass_gap>>

Next ==
    \/ Start
    \/ ChunkArrives
    \/ Timeout
    \/ StreamEnd
    \/ StreamError
    \/ Cancel
    \/ Finalize
    \/ add_message

Spec == Init /\ [][Next]_vars

(***************************************************************************)
(* split_message and find_split_point on their own: the arguments are      *)
(* drawn from the texts of at most MaxTextLen characters over a letter,    *)
(* the full stop and the two whitespace characters, and the limits from 1  *)
(* to MaxTextLen.  The renderer stays in its initial state.                *)
(***************************************************************************)
SplitAlphabet == {"a", ".", " ", "\n"}

SplitTexts == UNION {[1..n -> SplitAlphabet] : n \in 0..MaxTextLen}

SplitInit ==
    /\ sm_text \in SplitTexts
    /\ sm_max_length \in 1..MaxTextLen
    /\ sm_remaining = <<>>
    /\ sm_parts = <<>>
    /\ sm_pc = "input"
    /\ sm_split_pos = -1
    /\ sm_first = <<>>
    /\ AuxIdle
    /\ RendererInit
    /\ markdownify_closes_fence = FALSE
    /\ piece_size = "long"
    /\ show_thinking = FALSE

RendererIdle ==
    UNCHANGED <<markdownify_closes_fence, piece_size, store, show_thinking,
                content, reasoning, sent_parts, sent_thinking_parts,
                sent_message_ids, thinking_finalized, in_code_block,
                thinking_msg_replaced, pending_tool, current_status_text,
                final_content_confirmed, last_update, tool_counts, draft, draft_shows,
                outbox, moved, pc, error, finalized, chunks, faults, clock,
                since_pass, rendered, rendered_at, pass_gap, exc, oversize>>

\* find_split_point(text, max_length) is called on the arguments
find_split_point_call ==
    /\ sm_pc = "input"
    /\ sm_split_pos = -1
    /\ sm_split_pos' = find_split_point(sm_text, sm_max_length)
    /\ UNCHANGED <<sm_text, sm_max_length, sm_remaining, sm_parts, sm_pc, sm_first>>
    /\ RendererIdle
    /\ UNCHANGED aux_vars

\* split_message is entered: the early return, or the loop begins
split_message_enter ==
    /\ sm_pc = "input"
    /\ IF Len(sm_text) <= sm_max_length
       THEN /\ sm_parts' = split_message_whole(sm_text)
            /\ sm_pc' = "done"
            /\ UNCHANGED sm_remaining
       ELSE /\ sm_parts' = <<>>
            /\ sm_remaining' = sm_text
            /\ sm_pc' = "loop"
    /\ UNCHANGED <<sm_text, sm_max_length, sm_split_pos, sm_first>>
    /\ RendererIdle
    /\ UNCHANGED aux_vars

\* one evaluation of the loop condition and, when it holds, of the loop body
split_message_loop ==
    /\ sm_pc = "loop"
    /\ IF sm_remaining = <<>>
       THEN /\ sm_pc' = "done"
            /\ UNCHANGED <<sm_parts, sm_remaining>>
       ELSE IF Len(sm_remaining) <= sm_max_length
       THEN /\ sm_parts' = Append(sm_parts, sm_remaining)
            /\ sm_pc' = "done"
            /\ UNCHANGED sm_remaining
       ELSE /\ sm_parts' = Append(sm_parts,
                                  split_message_cut(sm_remaining, sm_max_length)[1])
            /\ sm_remaining' = split_message_cut(sm_remaining, sm_max_length)[2]
            /\ UNCHANGED sm_pc
    /\ UNCHANGED <<sm_text, sm_max_length, sm_split_pos, sm_first>>
    /\ RendererIdle
    /\ UNCHANGED aux_vars

\* the single segment of a call that returned is handed to split_message again
split_message_again ==
    /\ sm_pc = "done"
    /\ sm_first = <<>>
    /\ Len(sm_parts) = 1
    /\ sm_first' = sm_parts
    /\ sm_text' = sm_parts[1]
    /\ sm_parts' = <<>>
    /\ sm_remaining' = <<>>
    /\ sm_pc' = "input"
    /\ sm_split_pos' = -1
    /\ UNCHANGED sm_max_length
    /\ RendererIdle
    /\ UNCHANGED aux_vars

SplitNext ==
    \/ find_split_point_call
    \/ split_message_enter
    \/ split_message_loop
    \/ split_message_again

SplitSpec == SplitInit /\ [][SplitNext]_vars

(***************************************************************************)
(* _iter_with_timeout on its own: the wrapper iterates a stream of at most *)
(* MaxStream chunks that ends by StopAsyncIteration or by raising, and its *)
(* consumer asks for the next event after each one.  The stream answers an *)
(* __anext__ task at any moment, also while the consumer holds an event;   *)
(* the timeout of a wait elapses at any moment of the wait.                *)
(***************************************************************************)
MaxStream == 3
MaxTimeouts == 2

NoChunk == 0

IterStreams == {[i \in 1..n |-> i] : n \in 0..MaxStream}

PendingAnext == [state |-> "pending", result |-> [kind |-> "none", chunk |-> NoChunk]]

\* the chunks the stream has handed out to the tasks
Given(tasks) ==
    Cardinality({i \in DOMAIN tasks : tasks[i].result.kind = "chunk"})

\* what aiter.__anext__() produces when the stream has handed out `given` chunks
anext_result(stream, ends, given) ==
    IF given < Len(stream)
    THEN [kind |-> "chunk", chunk |-> stream[given + 1]]
    ELSE [kind |-> ends, chunk |-> NoChunk]

\* the wait that drops the fetch it timed out on
IterAfterWaitCancelling(pending, task) ==
    IF task.state = "finished"
    THEN IF task.result.kind = "chunk"
         THEN [pending_task |-> 0, pc |-> "yield",
               event |-> <<[chunk |-> task.result.chunk, is_timeout |-> FALSE]>>]
         ELSE IF task.result.kind = "stop"
         THEN [pending_task |-> 0, pc |-> "returned", event |-> <<>>]
         ELSE [pending_task |-> 0, pc |-> "raised", event |-> <<>>]
    ELSE [pending_task |-> 0, pc |-> "yield",
          event |-> <<[chunk |-> NoChunk, is_timeout |-> TRUE]>>]

\* the statements after asyncio.wait returned: `if done: ... else: ...`
iter_after_wait(pending, task) ==
    IF task.state = "finished"
    THEN IF task.result.kind = "chunk"
         THEN [pending_task |-> 0, pc |-> "yield",
               event |-> <<[chunk |-> task.result.chunk, is_timeout |-> FALSE]>>]
         ELSE IF task.result.kind = "stop"
         THEN [pending_task |-> 0, pc |-> "returned", event |-> <<>>]
         ELSE [pending_task |-> 0, pc |-> "raised", event |-> <<>>]
    ELSE [pending_task |-> pending, pc |-> "yield",
          event |-> <<[chunk |-> NoChunk, is_timeout |-> TRUE]>>]

IsTimeoutEvent(e) == e.is_timeout

IsChunkEvent(e) == ~e.is_timeout

IterInit ==
    /\ it_stream \in IterStreams
    /\ it_ends \in {"stop", "raise"}
    /\ it_tasks = <<>>
    /\ pending_task = 0
    /\ it_timer = FALSE
    /\ it_pc = "loop"
    /\ it_events = <<>>
    /\ SplitIdle
    /\ DraftIdIdle
    /\ MediaIdle
    /\ InviteIdle
    /\ RendererInit
    /\ markdownify_closes_fence = FALSE
    /\ piece_size = "long"
    /\ show_thinking = FALSE

IterOthersIdle ==
    /\ RendererIdle
    /\ UNCHANGED <<split_vars, id_vars, mg_vars, inv_vars>>

\* the top of the loop: a task is created when none is pending, then the wait begins
iter_create_task ==
    /\ it_pc = "loop"
    /\ IF pending_task = 0
       THEN /\ it_tasks' = Append(it_tasks, PendingAnext)
            /\ pending_task' = Len(it_tasks) + 1
       ELSE UNCHANGED <<it_tasks, pending_task>>
    /\ it_timer' = FALSE
    /\ it_pc' = "wait"
    /\ UNCHANGED <<it_stream, it_ends, it_events>>
    /\ IterOthersIdle

\* the stream answers the oldest __anext__ task that is pending
stream_anext ==
    /\ \E i \in DOMAIN it_tasks :
          /\ it_tasks[i].state = "pending"
          /\ \A j \in 1..(i - 1) : it_tasks[j].state # "pending"
          /\ it_tasks' = [it_tasks EXCEPT ![i] =
                 [state |-> "finished",
                  result |-> anext_result(it_stream, it_ends, Given(it_tasks))]]
    /\ UNCHANGED <<it_stream, it_ends, pending_task, it_timer, it_pc, it_events>>
    /\ IterOthersIdle

\* timeout_seconds have passed since the wait began
iter_timeout_elapses ==
    /\ it_pc = "wait"
    /\ ~it_timer
    /\ Len(SelectSeq(it_events, IsTimeoutEvent)) < MaxTimeouts
    /\ it_timer' = TRUE
    /\ UNCHANGED <<it_stream, it_ends, it_tasks, pending_task, it_pc, it_events>>
    /\ IterOthersIdle

\* asyncio.wait returns, because the task is done or the timeout has elapsed
iter_wait_returns ==
    /\ it_pc = "wait"
    /\ it_tasks[pending_task].state = "finished" \/ it_timer
    /\ LET r == iter_after_wait(pending_task, it_tasks[pending_task])
       IN  /\ pending_task' = r.pending_task
           /\ it_pc' = r.pc
           /\ it_events' = it_events \o r.event
    /\ UNCHANGED <<it_stream, it_ends, it_tasks, it_timer>>
    /\ IterOthersIdle

\* the consumer asks the wrapper for its next event
iter_resume ==
    /\ it_pc = "yield"
    /\ it_pc' = "loop"
    /\ UNCHANGED <<it_stream, it_ends, it_tasks, pending_task, it_timer, it_events>>
    /\ IterOthersIdle

IterNext ==
    \/ iter_create_task
    \/ stream_anext
    \/ iter_timeout_elapses
    \/ iter_wait_returns
    \/ iter_resume

IterSpec == IterInit /\ [][IterNext]_vars

(***************************************************************************)
(* The surface id on its own: a StreamingState is constructed, previews    *)
(* are sent under its draft_id, and new_draft_id is called after each      *)
(* permanent segment.  Between two steps the clock may stand still, as it  *)
(* does when there is no await between them or when the awaited call       *)
(* returns within the same millisecond, or advance.                        *)
(***************************************************************************)
DraftIdModulus == 2147483647
MaxRotations == 3
MaxElapses == 3

\* the clock readings at the construction of the state
ClockStarts ==
    {[wraps |-> 0, ms |-> 0],
     [wraps |-> 833, ms |-> 12345],
     [wraps |-> 833, ms |-> DraftIdModulus - 1]}

\* the time that passes between two steps: a millisecond, or DraftIdModulus of them
ElapsedMs == {[wraps |-> 0, ms |-> 1], [wraps |-> 1, ms |-> 0]}

\* the clock after d has passed; ms stays within 0..DraftIdModulus
Elapse(now, d) ==
    IF now.ms > DraftIdModulus - d.ms
    THEN [wraps |-> now.wraps + d.wraps + 1, ms |-> now.ms - (DraftIdModulus - d.ms)]
    ELSE [wraps |-> now.wraps + d.wraps, ms |-> now.ms + d.ms]

\* int(time.time() * 1000) % (2**31 - 1): the multiples of the modulus drop out
generate_draft_id(now) == now.ms % DraftIdModulus

DraftIdInit ==
    /\ id_clock \in ClockStarts
    /\ draft_id = generate_draft_id(id_clock)
    /\ id_preview = -1
    /\ id_rotations = 0
    /\ id_elapses = 0
    /\ SplitIdle
    /\ IterIdle
    /\ MediaIdle
    /\ InviteIdle
    /\ RendererInit
    /\ markdownify_closes_fence = FALSE
    /\ piece_size = "long"
    /\ show_thinking = FALSE

DraftIdOthersIdle ==
    /\ RendererIdle
    /\ UNCHANGED <<split_vars, iter_vars, mg_vars, inv_vars>>

\* time passes
ClockAdvances ==
    /\ id_elapses < MaxElapses
    /\ \E d \in ElapsedMs : id_clock' = Elapse(id_clock, d)
    /\ id_elapses' = id_elapses + 1
    /\ UNCHANGED <<draft_id, id_preview, id_rotations>>
    /\ DraftIdOthersIdle

\* a preview is sent: send_message_draft(draft_id = state.draft_id)
send_message_draft ==
    /\ id_preview # draft_id
    /\ id_preview' = draft_id
    /\ UNCHANGED <<id_clock, draft_id, id_rotations, id_elapses>>
    /\ DraftIdOthersIdle

\* StreamingState.new_draft_id, called once a permanent segment is out
new_draft_id ==
    /\ id_rotations < MaxRotations
    /\ draft_id' = generate_draft_id(id_clock)
    /\ id_rotations' = id_rotations + 1
    /\ UNCHANGED <<id_clock, id_preview, id_elapses>>
    /\ DraftIdOthersIdle

DraftIdNext ==
    \/ ClockAdvances
    \/ send_message_draft
    \/ new_draft_id

DraftIdSpec == DraftIdInit /\ [][DraftIdNext]_vars

(***************************************************************************)
(* Media groups on their own: at most MaxPhotos photo messages arrive,     *)
(* each in one of the groups of MediaKeys, and each is handed to           *)
(* _queue_media_group; the handlers and the flush tasks they create run    *)
(* concurrently and interleave wherever they wait: for the lock, and in    *)
(* the sleep of a flush task.  A flush task may wake early or late.        *)
(***************************************************************************)
MaxPhotos == 3

NewBuffer(key) == [key |-> key, image_ids |-> <<>>]

\* _MEDIA_GROUPS keeping the buffer it hands out
MediaGroupsKeep(groups, key) == groups

\* _MEDIA_GROUPS after pop(key, None)
media_groups_pop(groups, key) == [groups EXCEPT ![key] = 0]

QueueHolder(c) == [kind |-> "queue", id |-> c]

FlushHolder(f) == [kind |-> "flush", id |-> f]

MediaInit ==
    /\ MediaIdle
    /\ SplitIdle
    /\ IterIdle
    /\ DraftIdIdle
    /\ InviteIdle
    /\ RendererInit
    /\ markdownify_closes_fence = FALSE
    /\ piece_size = "long"
    /\ show_thinking = FALSE

MediaOthersIdle ==
    /\ RendererIdle
    /\ UNCHANGED <<split_vars, iter_vars, id_vars, inv_vars>>

\* a photo message of a media group arrives: handle_message calls _queue_media_group
media_arrives ==
    /\ Len(mg_calls) < MaxPhotos
    /\ \E k \in MediaKeys :
          mg_calls' = Append(mg_calls, [key |-> k, photo |-> Len(mg_calls) + 1,
                                        pc |-> "lock", buffer |-> 0])
    /\ UNCHANGED <<mg_groups, mg_lock, mg_heap, mg_flushes, mg_handled>>
    /\ MediaOthersIdle

\* _queue_media_group enters `async with _MEDIA_GROUPS_LOCK`
queue_acquire ==
    \E c \in DOMAIN mg_calls :
        /\ mg_calls[c].pc = "lock"
        /\ mg_lock = Unlocked
        /\ mg_lock' = QueueHolder(c)
        /\ mg_calls' = [mg_calls EXCEPT ![c].pc = "get"]
        /\ UNCHANGED <<mg_groups, mg_heap, mg_flushes, mg_handled>>
        /\ MediaOthersIdle

\* the buffer of the key is looked up; a missing one is created with its flush task
queue_get ==
    \E c \in DOMAIN mg_calls :
        /\ mg_calls[c].pc = "get"
        /\ IF mg_groups[mg_calls[c].key] = 0
           THEN /\ mg_heap' = Append(mg_heap, NewBuffer(mg_calls[c].key))
                /\ mg_groups' = [mg_groups EXCEPT ![mg_calls[c].key] = Len(mg_heap) + 1]
                /\ mg_flushes' = Append(mg_flushes, [key |-> mg_calls[c].key,
                                                     pc |-> "sleep", buffer |-> 0])
                /\ mg_calls' = [mg_calls EXCEPT ![c].pc = "append",
                                                ![c].buffer = Len(mg_heap) + 1]
           ELSE /\ mg_calls' = [mg_calls EXCEPT ![c].pc = "append",
                                                ![c].buffer = mg_groups[mg_calls[c].key]]
                /\ UNCHANGED <<mg_heap, mg_groups, mg_flushes>>
        /\ UNCHANGED <<mg_lock, mg_handled>>
        /\ MediaOthersIdle

\* the photo is appended to the buffer and the lock released
queue_append ==
    \E c \in DOMAIN mg_calls :
        /\ mg_calls[c].pc = "append"
        /\ mg_heap' = [mg_heap EXCEPT ![mg_calls[c].buffer].image_ids =
                           Append(@, mg_calls[c].photo)]
        /\ mg_lock' = Unlocked
        /\ mg_calls' = [mg_calls EXCEPT ![c].pc = "done"]
        /\ UNCHANGED <<mg_groups, mg_flushes, mg_handled>>
        /\ MediaOthersIdle

\* asyncio.sleep(MEDIA_GROUP_DELAY) of a flush task is over
flush_wakes ==
    \E f \in DOMAIN mg_flushes :
        /\ mg_flushes[f].pc = "sleep"
        /\ mg_flushes' = [mg_flushes EXCEPT ![f].pc = "lock"]
        /\ UNCHANGED <<mg_groups, mg_lock, mg_heap, mg_calls, mg_handled>>
        /\ MediaOthersIdle

\* _flush_media_group enters `async with _MEDIA_GROUPS_LOCK`
flush_acquire ==
    \E f \in DOMAIN mg_flushes :
        /\ mg_flushes[f].pc = "lock"
        /\ mg_lock = Unlocked
        /\ mg_lock' = FlushHolder(f)
        /\ mg_flushes' = [mg_flushes EXCEPT ![f].pc = "pop"]
        /\ UNCHANGED <<mg_groups, mg_heap, mg_calls, mg_handled>>
        /\ MediaOthersIdle

\* the buffer of the key is taken out, the lock released; without a buffer the task returns
flush_pop ==
    \E f \in DOMAIN mg_flushes :
        /\ mg_flushes[f].pc = "pop"
        /\ mg_groups' = media_groups_pop(mg_groups, mg_flushes[f].key)
        /\ mg_lock' = Unlocked
        /\ mg_flushes' = [mg_flushes EXCEPT
                             ![f].buffer = mg_groups[mg_flushes[f].key],
                             ![f].pc = IF mg_groups[mg_flushes[f].key] = 0
                                       THEN "done" ELSE "handle"]
        /\ UNCHANGED <<mg_heap, mg_calls, mg_handled>>
        /\ MediaOthersIdle

\* _handle_incoming_payload is called with the image_ids of the buffer
flush_handle ==
    \E f \in DOMAIN mg_flushes :
        /\ mg_flushes[f].pc = "handle"
        /\ mg_handled' = Append(mg_handled,
                                [buffer |-> mg_flushes[f].buffer,
                                 image_ids |-> mg_heap[mg_flushes[f].buffer].image_ids])
        /\ mg_flushes' = [mg_flushes EXCEPT ![f].pc = "done"]
        /\ UNCHANGED <<mg_groups, mg_lock, mg_heap, mg_calls>>
        /\ MediaOthersIdle

MediaNext ==
    \/ media_arrives
    \/ queue_acquire
    \/ queue_get
    \/ queue_append
    \/ flush_wakes
    \/ flush_acquire
    \/ flush_pop
    \/ flush_handle

MediaSpec == MediaInit /\ [][MediaNext]_vars

(***************************************************************************)
(* Invite redemption on its own: MaxRedemptions users who have no record   *)
(* yet redeem the same code, each in a session of its own (cmd_code or     *)
(* cmd_start_with_invite).  The handlers interleave at their awaits.  A    *)
(* session reads the committed row; the row object it loaded stays in its  *)
(* identity map; its change is written as UPDATE ... SET current_uses =    *)
(* <the value it computed> when the session flushes, and from the flush    *)
(* to the commit the session holds the write transaction of the database,  *)
(* which admits one writer at a time.                                      *)
(***************************************************************************)
MaxRedemptions == 3
MaxUses == 2

NoLimit == -1

NotLoaded == -1

\* `invite.max_uses is not None and invite.current_uses >= invite.max_uses`
invite_exhausted(max_uses, current_uses) ==
    max_uses # NoLimit /\ current_uses >= max_uses

InviteInit ==
    /\ inv_max_uses \in 1..MaxUses
    /\ inv_current_uses \in 0..inv_max_uses
    /\ inv_admitted = inv_current_uses
    /\ inv_writer = 0
    /\ inv_sessions = [s \in 1..MaxRedemptions |->
                          [pc |-> "start", current_uses |-> NotLoaded]]
    /\ SplitIdle
    /\ IterIdle
    /\ DraftIdIdle
    /\ MediaIdle
    /\ RendererInit
    /\ markdownify_closes_fence = FALSE
    /\ piece_size = "long"
    /\ show_thinking = FALSE

InviteOthersIdle ==
    /\ RendererIdle
    /\ UNCHANGED <<split_vars, iter_vars, id_vars, mg_vars>>

\* the handler opens its session and finds no user record
get_user_by_telegram_id ==
    \E s \in DOMAIN inv_sessions :
        /\ inv_sessions[s].pc = "start"
        /\ inv_sessions' = [inv_sessions EXCEPT ![s].pc = "validate"]
        /\ UNCHANGED <<inv_max_uses, inv_current_uses, inv_admitted, inv_writer>>
        /\ InviteOthersIdle

\* _validate_and_use_invite up to its call of use_invite_code: the row is
\* loaded and an exhausted code refused
validate_invite ==
    \E s \in DOMAIN inv_sessions :
        /\ inv_sessions[s].pc = "validate"
        /\ inv_sessions' = [inv_sessions EXCEPT
               ![s].current_uses = inv_current_uses,
               ![s].pc = IF invite_exhausted(inv_max_uses, inv_current_uses)
                         THEN "refused" ELSE "use"]
        /\ UNCHANGED <<inv_max_uses, inv_current_uses, inv_admitted, inv_writer>>
        /\ InviteOthersIdle

\* Repository.use_invite_code: the row is selected again, which yields the
\* object already loaded, and the counter incremented on it; the caller
\* goes on whatever is returned
use_invite_code ==
    \E s \in DOMAIN inv_sessions :
        /\ inv_sessions[s].pc = "use"
        /\ inv_sessions' = [inv_sessions EXCEPT
               ![s].current_uses =
                   IF invite_exhausted(inv_max_uses, inv_sessions[s].current_uses)
                   THEN @ ELSE @ + 1,
               ![s].pc = "create"]
        /\ UNCHANGED <<inv_max_uses, inv_current_uses, inv_admitted, inv_writer>>
        /\ InviteOthersIdle

\* _create_user_with_language: the pending UPDATE of the row and the INSERT of
\* the user are flushed, which opens the session's write transaction
create_user_with_language ==
    \E s \in DOMAIN inv_sessions :
        /\ inv_sessions[s].pc = "create"
        /\ inv_writer = 0
        /\ inv_writer' = s
        /\ inv_sessions' = [inv_sessions EXCEPT ![s].pc = "commit"]
        /\ UNCHANGED <<inv_max_uses, inv_current_uses, inv_admitted>>
        /\ InviteOthersIdle

\* session.commit(): the written counter and the new user become the committed state
session_commit ==
    \E s \in DOMAIN inv_sessions :
        /\ inv_sessions[s].pc = "commit"
        /\ inv_writer = s
        /\ inv_current_uses' = inv_sessions[s].current_uses
        /\ inv_admitted' = inv_admitted + 1
        /\ inv_writer' = 0
        /\ inv_sessions' = [inv_sessions EXCEPT ![s].pc = "admitted"]
        /\ UNCHANGED inv_max_uses
        /\ InviteOthersIdle

InviteNext ==
    \/ get_user_by_telegram_id
    \/ validate_invite
    \/ use_invite_code
    \/ create_user_with_language
    \/ session_commit

InviteSpec == InviteInit /\ [][InviteNext]_vars

(***************************************************************************)
(* Properties.                                                             *)
(***************************************************************************)
Odd(n) == n % 2 = 1

Contains(text, pat) == \E k \in 1..Len(text) : MatchAt(text, k, pat)

Messages == {outbox[i] : i \in DOMAIN outbox}

\* C1: while the generation has not taken the error path, the concatenation
\* of sent_parts is a prefix of content.
C1_AnswerLedgerPrefix ==
    error = "none" => IsPrefix(Concat(sent_parts), content)

\* C2: answer text that a tool invocation moved into reasoning is in no
\* permanent message that carries answer text.
C2_ToolTextIsolation ==
    error = "none" => \A m \in Messages : m.pos \cap moved = {}

\* C3: in a generation without error no position of the answer text is
\* delivered in two permanent messages.
C3_NoDuplicateDelivery ==
    error = "none" =>
        \A i, j \in DOMAIN outbox : i < j => outbox[i].pos \cap outbox[j].pos = {}

\* C4: a segment the overflow handlers record in sent_parts or
\* sent_thinking_parts was delivered whole: the text behind the message sent
\* is the text the handler asked to send, not a trimmed prefix of it.
C4_RecordedSegmentsDeliveredWhole ==
    \A m \in Messages :
        (\/ m.by = "thinking_overflow"
         \/ (m.by = "content_overflow" /\ m.kind = "answer"))
        => m.raw = m.asked

\* C5: when the function returns and the platform accepted every send, at
\* least one permanent message has been sent.
C5_AtLeastOnePermanentMessage ==
    (pc = "returned" /\ faults = 0) => Len(outbox) >= 1

\* C6: after an error of the model stream the final flush delivers the whole
\* apology text in a permanent message.
C6_ApologyDelivered ==
    (pc = "returned" /\ error = "stream" /\ faults = 0) =>
        \E m \in Messages :
            Contains(m.text, convert_to_telegram_markdown(Apology))

\* C7: however the consumption of the stream terminates, _finalize_response
\* has been executed when the generation is over.
C7_FinalizationAlwaysRuns ==
    pc \in {"returned", "raised", "cancelled"} => finalized

\* the three ledgers only grow, at the end
LedgersAppendOnly ==
    /\ IsPrefix(sent_parts, sent_parts')
    /\ IsPrefix(sent_thinking_parts, sent_thinking_parts')
    /\ IsPrefix(sent_message_ids, sent_message_ids')

\* a permanent send raised out of an overflow handler in this step
OverflowSendRaised == pc = "streaming" /\ error' = "step"

\* sent_parts grows without a send only by a tool-invocation move
AppendWithoutSendIsToolMove ==
    (Len(sent_parts') > Len(sent_parts) /\ outbox' = outbox) =>
        /\ moved' # moved
        /\ \E n \in ToolNames : tool_counts'[n] = tool_counts[n] + 1

\* C8 as stated: the ledgers are append-only, a step in which a permanent
\* send of an overflow handler raises extends none of the three lists, and
\* the only append without a send is the tool-invocation move.
C8_LedgersUntouchedByFailedStep ==
    [][/\ LedgersAppendOnly
       /\ OverflowSendRaised =>
            /\ sent_parts' = sent_parts
            /\ sent_thinking_parts' = sent_thinking_parts
            /\ sent_message_ids' = sent_message_ids
       /\ AppendWithoutSendIsToolMove]_vars

\* the messages delivered in this step
Delivered == {outbox'[i] : i \in (Len(outbox) + 1)..Len(outbox')}

\* C8 amended: the ledgers are append-only and every append is backed by a
\* confirmed send: sent_message_ids grows by the id of each message delivered
\* in the step and by nothing else, sent_thinking_parts by one part per
\* reasoning message _handle_thinking_overflow delivered, sent_parts by one
\* head per answer message _handle_content_overflow delivered and, without a
\* send, only by the tool-invocation move.  A send that raises adds nothing;
\* what a send delivered earlier in the same step stays recorded.
C8_LedgersGrowOnlyByConfirmedSends ==
    [][/\ LedgersAppendOnly
       /\ IsPrefix(outbox, outbox')
       /\ sent_message_ids' =
            sent_message_ids
            \o [i \in 1..(Len(outbox') - Len(outbox)) |-> Len(outbox) + i]
       /\ Len(sent_thinking_parts') - Len(sent_thinking_parts) =
            Cardinality({m \in Delivered : m.by = "thinking_overflow"})
       /\ Len(sent_parts') - Len(sent_parts) =
            Cardinality({m \in Delivered :
                            m.by = "content_overflow" /\ m.kind = "answer"})
            + (IF moved' # moved THEN 1 ELSE 0)
       /\ AppendWithoutSendIsToolMove]_vars

\* C8, the case: the reasoning block of a content overflow was delivered and
\* the send of the answer head then raised.
C8_HeadSendRaisedAfterReasoningSent ==
    /\ pc = "finalizing"
    /\ error = "step"
    /\ outbox # <<>>
    /\ outbox[Len(outbox)].by = "content_overflow"
    /\ outbox[Len(outbox)].kind = "thinking"
    /\ sent_message_ids # <<>>

\* C9: a head that a content overflow cuts inside an open code fence is
\* delivered with an even number of fence markers.
C9_OverflowHeadFenceBalanced ==
    \A m \in Messages :
        (m.by = "content_overflow" /\ m.kind = "answer" /\ Odd(CountFence(m.asked)))
        => ~Odd(CountFence(m.text))

\* C10: in the final flush a fragment that follows a fragment with an odd
\* number of fence markers starts with the reopening marker.
C10_FinalFragmentsReopenFence ==
    \A i \in DOMAIN outbox :
        (/\ i < Len(outbox)
         /\ outbox[i].by = "final_content"
         /\ outbox[i + 1].by = "final_content"
         /\ Odd(CountFence(outbox[i].asked)))
        => IsPrefix(REOPEN, outbox[i + 1].asked)

\* C11: every text handed to bot.send_message or bot.send_message_draft,
\* whether the call was accepted or refused, is at most SAFE_MESSAGE_LENGTH
\* long: no call was ever made with a longer text, and what the chat and
\* the preview surface show respects the ceiling.
C11_LengthCeiling ==
    /\ oversize = FALSE
    /\ \A m \in Messages : Len(m.text) <= SAFE_MESSAGE_LENGTH
    /\ Len(draft) <= SAFE_MESSAGE_LENGTH

\* a permanent message whose text had to be trimmed to fit and was
\* delivered filling the ceiling
C11_TrimmedMessageDelivered ==
    \E m \in Messages :
        /\ m.raw # m.asked
        /\ Len(m.asked) <= SAFE_MESSAGE_LENGTH
        /\ Len(m.text) > SAFE_MESSAGE_LENGTH - 2

\* C12: in the main loop a render pass starts only when at least 0.5 s have
\* passed since last_update was written, and the starts of two consecutive
\* render passes are at least 0.5 s apart; a pass that returns writes
\* last_update; a chunk that arrives sooner sends no permanent message,
\* leaves the ledgers of sent messages alone and changes the preview only
\* for a tool event.
C12_ThrottleGate ==
    [][chunks' = chunks + 1 =>
         /\ rendered' => (rendered_at' >= GateTicks /\ pass_gap' >= GateTicks)
         /\ (rendered' /\ pc' = "streaming") => (last_update' = 1 /\ clock' = 0)
         /\ ~rendered' =>
              /\ outbox' = outbox
              /\ sent_message_ids' = sent_message_ids
              /\ sent_thinking_parts' = sent_thinking_parts
              /\ in_code_block' = in_code_block
              /\ thinking_finalized' = thinking_finalized
              /\ final_content_confirmed' => final_content_confirmed
              /\ (draft' # draft \/ sent_parts' # sent_parts)
                     => tool_counts' # tool_counts]_vars

\* a chunk was held back by the gate after an earlier render pass, its text
\* is in the accumulator but in no permanent message and not on the preview
C12_ChunkHeldBackByGate ==
    /\ pc = "streaming"
    /\ ~rendered
    /\ last_update = 1
    /\ clock < GateTicks
    /\ chunks >= 2
    /\ Len(content) > Len(draft)

\* what _finalize_response finds when it is entered: the answer text that
\* remains to be sent and the reasoning that remains to be sent
RemainingAnswer ==
    LET final_content == IF content # <<>> THEN content ELSE NoResponse
    IN  IF sent_content_len(State) < Len(final_content)
        THEN Drop(final_content, sent_content_len(State))
        ELSE final_content

RemainingThinking == IF reasoning # <<>> THEN current_thinking(State) ELSE <<>>

\* the messages the step delivered
NewMessages == SubSeq(outbox', Len(outbox) + 1, Len(outbox'))

\* the final flush finds unsent reasoning, not finalized, and a non-blank
\* remaining answer, and returns
FinalFlushOfReasoningAndAnswer ==
    /\ pc = "finalizing" /\ pc' = "returned"
    /\ show_thinking /\ ~thinking_finalized
    /\ RemainingThinking # <<>>
    /\ strip(RemainingAnswer) # <<>>

CombinedFits ==
    Len(format_thinking_with_content(RemainingThinking, RemainingAnswer))
        <= SAFE_MESSAGE_LENGTH

\* C13: when the final flush finds unsent, unfinalized reasoning and a
\* non-blank remaining answer, then if the collapsed reasoning plus the
\* converted answer fit the ceiling exactly one permanent message is sent
\* and it carries both, whole; if they do not fit, the reasoning message is
\* sent first and only answer messages, at least one, follow it.
C13_CombinedFinalMessage ==
    [][FinalFlushOfReasoningAndAnswer =>
         IF CombinedFits
         THEN /\ Len(NewMessages) = 1
              /\ NewMessages[1].kind = "combined"
              /\ NewMessages[1].raw =
                     format_thinking_with_content(RemainingThinking, RemainingAnswer)
         ELSE /\ Len(NewMessages) >= 2
              /\ NewMessages[1].kind = "thinking"
              /\ \A i \in 2..Len(NewMessages) : NewMessages[i].kind = "answer"]_vars

\* the same, for a final flush in which the platform refused no call
C13_CombinedFinalMessageNoRejection ==
    [][(FinalFlushOfReasoningAndAnswer /\ faults' = faults) =>
         IF CombinedFits
         THEN /\ Len(NewMessages) = 1
              /\ NewMessages[1].kind = "combined"
              /\ NewMessages[1].raw =
                     format_thinking_with_content(RemainingThinking, RemainingAnswer)
         ELSE /\ Len(NewMessages) >= 2
              /\ NewMessages[1].kind = "thinking"
              /\ \A i \in 2..Len(NewMessages) : NewMessages[i].kind = "answer"]_vars

\* the permanent messages that carry answer text of the accumulator
AnswerCarriers == {i \in DOMAIN outbox : outbox[i].pos # {}}

\* the positions of the accumulated answer that hold visible characters
InkOfAnswer == {p \in 1..Len(content) : ~IsSpace(content[p])}

\* the generation returned without an error, and its answer is non-blank
\* and stayed below the confirmation threshold
ShortAnswerReturned ==
    /\ pc = "returned" /\ error = "none"
    /\ strip(content) # <<>>
    /\ Len(strip(content)) < FINAL_CONTENT_MIN_LENGTH
    /\ ~final_content_confirmed

\* C14: a non-blank answer that stayed below the confirmation threshold
\* for the whole stream is delivered at stream end in exactly one
\* permanent message, which carries every character of it.
C14_ShortAnswerDeliveredOnce ==
    ShortAnswerReturned =>
        /\ Cardinality(AnswerCarriers) = 1
        /\ \A i \in AnswerCarriers : InkOfAnswer \subseteq outbox[i].pos

\* the same, for generations in which the platform refused no call and no
\* tool event moved answer text into the reasoning
C14_ShortAnswerDeliveredOnceUndisturbed ==
    (ShortAnswerReturned /\ faults = 0 /\ moved = {}) =>
        /\ Cardinality(AnswerCarriers) = 1
        /\ \A i \in AnswerCarriers : InkOfAnswer \subseteq outbox[i].pos

\* the accumulated answer without the characters a tool event moved into
\* the reasoning
RECURSIVE UnmovedFrom(_)
UnmovedFrom(p) ==
    IF p > Len(content) THEN <<>>
    ELSE (IF p \in moved THEN <<>> ELSE <<content[p]>>) \o UnmovedFrom(p + 1)

\* C15: the content the caller stores as the assistant message holds none
\* of the answer text that a tool event moved into the reasoning: it is
\* the accumulated answer without the moved characters.
C15_StoredAnswerExcludesMovedText ==
    \A i \in DOMAIN store :
        error = "none" => store[i].content = UnmovedFrom(1)

\* without a tool move the stored content is the accumulated answer
C15_StoredAnswerIsAccumulator ==
    \A i \in DOMAIN store : store[i].content = content

\* the positions of the stored text that hold visible characters
StoredInk(i) ==
    {p \in 1..Len(store[i].content) : ~IsSpace(store[i].content[p])}

\* C16: a generation that returned has exactly one assistant message in the
\* store; its text is the answer text the user was sent (every visible
\* character of it is in a permanent message, and every permanent message
\* that is an answer carries text of it), and its message id is the id of
\* the first permanent message, absent only if none was sent.
C16_StoreWrite ==
    pc = "stored" =>
        /\ Len(store) = 1
        /\ store[1].message_id = (IF outbox = <<>> THEN 0 ELSE 1)
        /\ StoredInk(1) \subseteq UNION {m.pos : m \in Messages}
        /\ \A m \in Messages : m.kind \in {"answer", "combined"} => m.pos # {}

\* the part of C16 about the number of writes and the message id
C16_OneWriteWithFirstMessageId ==
    /\ Len(store) <= 1
    /\ pc = "stored" =>
          /\ Len(store) = 1
          /\ store[1].role = "assistant"
          /\ store[1].message_id = (IF outbox = <<>> THEN 0 ELSE 1)
    /\ pc # "stored" => store = <<>>

\* how often the platform gave the answer o to the attempts of one send
Count(answers, o) == Cardinality({i \in DOMAIN answers : answers[i] = o})

\* C17: a rate-limit rejection of a permanent send is followed by one retry
\* in the formatting of the first attempt: a rate limit leaves a step as an
\* exception only when the platform rate-limited the send twice, and a
\* message delivered after a rate limit is a MarkdownV2 message.
C17_RateLimitRetriedOnce ==
    /\ (exc.kind = "retry_after" /\ exc.where # "draft")
           => Count(exc.rejected, "retry_after") >= 2
    /\ \A m \in Messages :
           Count(m.after, "retry_after") > 0 => m.mode = "MarkdownV2"

\* what the code does: only _handle_content_overflow retries after a rate
\* limit, once, and it sends the unconverted text without a parse mode
C17_OnlyOverflowHeadRetriedAsPlainText ==
    /\ \A m \in Messages :
           /\ Count(m.after, "retry_after") > 0
                  => /\ m.by = "content_overflow" /\ m.kind = "answer"
                     /\ m.mode = "plain" /\ m.text = m.asked
                     /\ Count(m.after, "retry_after") = 1
           /\ m.mode = "plain" => m.after # <<>> /\ m.after[Len(m.after)] = "retry_after"
    /\ (exc.kind = "retry_after" /\ exc.where \in {"thinking_overflow", "final_thinking",
                                                   "final_content"})
           => exc.rejected[Len(exc.rejected)] = "retry_after"

\* what C18 says of the permanent messages and of the exception on record
FormattingRejectionRecovered ==
    /\ \A m \in Messages :
           /\ Count(m.after, "parse") <= 1
           /\ (m.after # <<>> /\ m.after[1] = "parse") =>
                  IF Len(m.after) = 1
                  THEN /\ m.mode = "MarkdownV2"
                       /\ m.raw # <<>> /\ IsPrefix(m.raw, m.asked)
                       /\ m.text = _escape_markdown_v2_full(m.raw)
                  ELSE /\ m.after = <<"parse", "retry_after">>
                       /\ m.by = "content_overflow" /\ m.mode = "plain"
    /\ exc.where \notin {"none", "draft"} =>
           /\ exc.kind = "parse" => Len(exc.rejected) >= 2
           /\ (exc.rejected # <<>> /\ exc.rejected[1] = "parse") =>
                  /\ Len(exc.rejected) >= 2
                  /\ exc.rejected[2] = "parse" => Len(exc.rejected) = 2

C19_PreviewFailureIsCosmetic ==
    exc.where = "draft" => exc.kind = "parse"

\* what the code does with a failed preview update in the loop: the
\* exception ends the loop and the apology replaces the accumulated answer;
\* in the final flush it leaves the function
C19_PreviewFailureEndsTheStream ==
    exc.where = "draft" =>
        \/ pc \in {"finalizing", "returned", "stored"} /\ error = "step"
                                                       /\ content = Apology
        \/ pc = "raised"

\* C20: a hard failure of a permanent send, in a streaming overflow or in
\* the final flush, leaves generate_and_stream_response as an exception.
C20_HardFailureOfPermanentSendPropagates ==
    (exc.kind = "hard" /\ exc.where \notin {"none", "draft"}) => pc = "raised"

\* the part of C20 that holds: a hard failure in the final flush propagates
C20_HardFailureInFinalFlushPropagates ==
    (exc.kind = "hard" /\ exc.where \in {"final_thinking", "final_content"})
        => (pc = "raised" /\ store = <<>>)

\* the 0-based positions, beyond max_length/3, at which sep occurs inside
\* text[0:max_length]
QualifyingPositions(sep) ==
    {p \in 0..(Min(sm_max_length, Len(sm_text)) - Len(sep)) :
        MatchAt(sm_text, p + 1, sep) /\ 3 * p > sm_max_length}

\* the position just after the last qualifying occurrence of sep
JustAfterLast(sep) == SetMax(QualifyingPositions(sep)) + Len(sep)

\* C21: find_split_point(text, max_length) returns the position just after
\* the last occurrence, inside text[0:max_length], of the first of "\n\n",
\* "\n", ". " and " " that occurs there beyond max_length/3, and max_length
\* when none does; the result is above max_length/3 and at most max_length.
C21_FindSplitPointContract ==
    sm_split_pos # -1 =>
        /\ sm_split_pos =
             (IF QualifyingPositions(<<"\n", "\n">>) # {}
              THEN JustAfterLast(<<"\n", "\n">>)
              ELSE IF QualifyingPositions(<<"\n">>) # {}
              THEN JustAfterLast(<<"\n">>)
              ELSE IF QualifyingPositions(<<".", " ">>) # {}
              THEN JustAfterLast(<<".", " ">>)
              ELSE IF QualifyingPositions(<<" ">>) # {}
              THEN JustAfterLast(<<" ">>)
              ELSE sm_max_length)
        /\ 3 * sm_split_pos > sm_max_length
        /\ sm_split_pos <= sm_max_length

\* a line break qualifies and a space qualifies after it: the result is the
\* position after the line break
C21_HigherPriorityBoundaryChosen ==
    /\ sm_split_pos # -1
    /\ QualifyingPositions(<<"\n", "\n">>) = {}
    /\ QualifyingPositions(<<"\n">>) # {}
    /\ \E p \in QualifyingPositions(<<" ">>) :
         p > SetMax(QualifyingPositions(<<"\n">>))
    /\ sm_split_pos = JustAfterLast(<<"\n">>)
    /\ sm_split_pos < sm_max_length
\* text is the parts in their order, with nothing but whitespace between
\* one part and the next and after the last
RECURSIVE Rejoins(_, _)
Rejoins(parts, text) ==
    IF parts = <<>> THEN text = <<>>
    ELSE /\ IsPrefix(Head(parts), text)
         /\ Rejoins(Tail(parts), lstrip(Drop(text, Len(Head(parts)))))

\* C22: the segments split_message returns are, in their order, pieces of
\* the text that leave out only whitespace at the places where the text was
\* cut: no other character is dropped, duplicated or reordered.
C22_SplitLosesNoData ==
    sm_pc = "done" => Rejoins(sm_parts, sm_text)

\* a text was cut in several segments and whitespace was removed at a cut
C22_WhitespaceRemovedAtBoundary ==
    /\ sm_pc = "done"
    /\ Len(sm_parts) >= 2
    /\ SumLen(sm_parts) < Len(sm_text)
    /\ sm_parts[1] # <<>>
HasNo(text, chars) == \A i \in 1..Len(text) : text[i] \notin chars

Trimmed(text) == strip(text) = text

\* the call is over and its text is longer than two limits and at most
\* three limits long
LongAsThreeSegments ==
    /\ sm_pc = "done"
    /\ 2 * sm_max_length < Len(sm_text)
    /\ Len(sm_text) <= 3 * sm_max_length

\* C23: a text without line breaks, longer than two limits and at most
\* three limits long, is split into exactly 3 segments, none longer than
\* the limit, each without leading and trailing whitespace.
C23_ThreeTrimmedSegments ==
    (LongAsThreeSegments /\ HasNo(sm_text, {"\n"})) =>
        /\ Len(sm_parts) = 3
        /\ \A i \in 1..Len(sm_parts) :
             Len(sm_parts[i]) <= sm_max_length /\ Trimmed(sm_parts[i])

\* C23 amended: a text without any whitespace, longer than two limits and
\* at most three limits long, is split into exactly 3 segments; of any text
\* no segment is longer than the limit, no segment but the first begins
\* with whitespace and no segment but the last ends with whitespace.
C23_SegmentCountAndBounds ==
    sm_pc = "done" =>
        /\ (LongAsThreeSegments /\ HasNo(sm_text, {" ", "\n"})) => Len(sm_parts) = 3
        /\ \A i \in 1..Len(sm_parts) :
             /\ Len(sm_parts[i]) <= sm_max_length
             /\ i > 1 => lstrip(sm_parts[i]) = sm_parts[i]
             /\ i < Len(sm_parts) => rstrip(sm_parts[i]) = sm_parts[i]

\* a text without whitespace was cut twice, away from any boundary, and the
\* last segment is what was left
C23_HardCutInThree ==
    /\ LongAsThreeSegments
    /\ HasNo(sm_text, {" ", "\n"})
    /\ Len(sm_parts) = 3
    /\ Len(sm_parts[1]) = sm_max_length
    /\ Len(sm_parts[3]) < sm_max_length
    /\ sm_max_length >= 2
\* C24: of a text no longer than the limit split_message returns the list
\* of that text alone, untrimmed, and split_message of that segment returns
\* the same list.
C24_SplitIdempotence ==
    (sm_pc = "done" /\ Len(sm_text) <= sm_max_length) =>
        /\ sm_parts = <<sm_text>>
        /\ sm_first # <<>> => sm_parts = sm_first

\* a short text that ends with whitespace went through split_message twice
C24_ShortTextSplitTwice ==
    /\ sm_pc = "done"
    /\ sm_first # <<>>
    /\ Len(sm_text) <= sm_max_length
    /\ strip(sm_text) # <<>>
    /\ rstrip(sm_text) # sm_text
    /\ sm_parts = sm_first
\* C25: thinking_finalized and final_content_confirmed only ever change
\* from false to true: no step of a generation sets either back to false.
C25_OneWayLatches ==
    [][/\ thinking_finalized => thinking_finalized'
       /\ final_content_confirmed => final_content_confirmed']_vars

\* C25 amended: thinking_finalized only ever changes from false to true;
\* final_content_confirmed is set back to false by a tool-invocation event
\* and by nothing else.
C25_LatchResetOnlyByToolEvent ==
    [][/\ thinking_finalized => thinking_finalized'
       /\ (final_content_confirmed /\ ~final_content_confirmed')
            => \E n \in ToolNames : tool_counts'[n] = tool_counts[n] + 1]_vars

\* an answer head went out in a content overflow, the rest of the answer was
\* confirmed in the same render pass, and a tool event then took the
\* confirmation back
C25_ConfirmationResetByTool ==
    /\ pc = "streaming"
    /\ faults = 0
    /\ \E m \in Messages : m.by = "content_overflow" /\ m.kind = "answer"
    /\ \E n \in ToolNames : tool_counts[n] = 1
    /\ moved # {}
    /\ ~final_content_confirmed
\* C26: after every step of a generation the concatenation of
\* sent_thinking_parts is a prefix of reasoning, so that current_thinking
\* is the reasoning behind the recorded parts; a step in which
\* _handle_thinking_overflow delivers a part makes sent_thinking_len
\* strictly larger.
C26_ReasoningLedgerPrefix ==
    [][/\ IsPrefix(Concat(sent_thinking_parts'), reasoning')
       /\ Concat(sent_thinking_parts') \o Drop(reasoning', SumLen(sent_thinking_parts'))
            = reasoning'
       /\ (\E m \in Delivered : m.by = "thinking_overflow")
            => SumLen(sent_thinking_parts') > SumLen(sent_thinking_parts)]_vars

\* a reasoning part was recorded after a cut at a line break: the part was
\* trimmed at its end and the reasoning that remains begins with the line
\* break
C26_PartRecordedAfterCutAtLineBreak ==
    /\ sent_thinking_parts # <<>>
    /\ SumLen(sent_thinking_parts) < Len(reasoning)
    /\ IsSpace(reasoning[SumLen(sent_thinking_parts) + 1])
    /\ \E m \in Messages : m.by = "thinking_overflow"
\* an answer head delivered as a permanent message by a content overflow
IsAnswerHead(m) == m.by = "content_overflow" /\ m.kind = "answer"

\* a permanent message that carries reasoning
IsReasoningMessage(m) == m.kind \in {"thinking", "combined"}

\* the reasoning not recorded in sent_thinking_parts went out, whole, in the
\* step, and no reasoning message delivered so far was trimmed
AllReasoningSentBeforeHead ==
    LET rest == Drop(reasoning', SumLen(sent_thinking_parts'))
    IN  /\ rest # <<>> =>
              \E m \in Delivered :
                  /\ m.by = "content_overflow" /\ m.kind = "thinking"
                  /\ m.raw = format_thinking_collapsed(rest)
        /\ \A i \in DOMAIN outbox' :
              outbox'[i].kind = "thinking" => outbox'[i].raw = outbox'[i].asked

\* C27: with show_thinking, once a content overflow has delivered an answer
\* head, thinking_finalized is true, all the reasoning accumulated up to
\* then was sent before that head, and no permanent reasoning message
\* follows the head.
C27_ReasoningFinalizedBeforeAnswerHead ==
    [][show_thinking =>
         /\ (\E i \in DOMAIN outbox' : IsAnswerHead(outbox'[i])) => thinking_finalized'
         /\ (\E m \in Delivered : IsAnswerHead(m)) => AllReasoningSentBeforeHead
         /\ \A i, j \in DOMAIN outbox' :
              (i < j /\ IsAnswerHead(outbox'[i])) => ~IsReasoningMessage(outbox'[j])]_vars
\* the answer and the reasoning that no permanent message has taken yet
UnsentAnswer == current_preview(State)

UnsentReasoning == current_thinking(State)

CombinedPreview == format_thinking_with_content(UnsentReasoning, UnsentAnswer)

\* a chunk went through a render pass that returned, with show_thinking,
\* reasoning not finalized, the answer confirmed and not blank, and the
\* platform refused no call
ConfirmedAnswerRendered ==
    /\ chunks' = chunks + 1
    /\ rendered'
    /\ pc' = "streaming"
    /\ faults' = faults
    /\ show_thinking
    /\ ~thinking_finalized'
    /\ final_content_confirmed'
    /\ strip(UnsentAnswer') # <<>>

\* C28: a render pass that finds the answer confirmed, with show_thinking
\* and reasoning not finalized, puts the collapsed unsent reasoning combined
\* with the unsent answer on the preview whenever the combination fits
\* SAFE_MESSAGE_LENGTH, whatever the amount of unsent reasoning, none
\* included.
C28_ConfirmedAnswerReachesPreview ==
    [][(ConfirmedAnswerRendered /\ Len(CombinedPreview') <= SAFE_MESSAGE_LENGTH)
         => draft' = CombinedPreview']_vars
\* a step of the loop for a timeout: the stream is open, no chunk is
\* consumed, and the loop goes on or the step raises
TimeoutStep ==
    /\ pc = "streaming"
    /\ chunks' = chunks
    /\ \/ pc' = "streaming"
       \/ pc' = "finalizing" /\ error' = "step" /\ error = "none"

\* what a refresh shows: the unsent reasoning, expanded, or the status line
RefreshText ==
    IF show_thinking /\ UnsentReasoning # <<>> /\ ~thinking_finalized
    THEN Take(format_thinking_expanded(UnsentReasoning), SAFE_MESSAGE_LENGTH)
    ELSE convert_to_telegram_markdown(current_status_text)

\* C29: when no chunk arrives for THINKING_REFRESH_INTERVAL while the
\* stream is open, the preview is updated and last_update is advanced,
\* whether the answer is confirmed or not; the refresh does not end the
\* stream and changes neither content nor reasoning nor the ledgers.
C29_StallRefresh ==
    [][TimeoutStep =>
         /\ pc' = "streaming"
         /\ last_update' = 1 /\ clock' = 0
         /\ ~final_content_confirmed => draft' = RefreshText
         /\ content' = content /\ reasoning' = reasoning
         /\ sent_parts' = sent_parts
         /\ sent_thinking_parts' = sent_thinking_parts
         /\ sent_message_ids' = sent_message_ids
         /\ outbox' = outbox]_vars
\* the number of "(Used <tool>)" markers in the reasoning that name tool n
MarkerCount(n) ==
    Cardinality({i \in 1..Len(reasoning) : MatchAt(reasoning, i, UsedMarker(n))})

\* C30: when reasoning has resumed after every tool-invocation event so far
\* (no tool is pending), the reasoning holds, for each tool, one marker
\* naming it per tool-invocation event of that tool, however many tool
\* events came between two reasoning spans.
C30_EveryToolRunRecorded ==
    pending_tool = NoTool =>
        \A n \in ToolNames : MarkerCount(n) = tool_counts[n]

\* reasoning resumes after a tool event: the step clears pending_tool
MarkerWritten == pending_tool # NoTool /\ pending_tool' = NoTool

\* C30 amended: pending_tool names the latest tool-invocation event; when
\* reasoning resumes while a tool is pending, exactly one marker is written,
\* naming that latest tool and placed before the resumed reasoning text,
\* and pending_tool is cleared; no other step writes a marker, so that of
\* several tool events between two reasoning spans only the last is recorded.
C30_MarkerNamesLatestToolEvent ==
    [][/\ \A n \in ToolNames :
            tool_counts'[n] = tool_counts[n] + 1 => pending_tool' = n
       /\ MarkerWritten =>
            \E t \in ReasoningTexts :
                reasoning' = reasoning \o UsedMarker(pending_tool) \o t
       /\ ~MarkerWritten =>
            \A n \in ToolNames : MarkerCount(n)' = MarkerCount(n)]_vars

\* two tool events, of two tools, came between the start and the first
\* reasoning text: the reasoning holds one marker, naming the second tool
C30_OnlyLatestOfTwoToolsRecorded ==
    /\ pending_tool = NoTool
    /\ tool_counts["w"] = 1 /\ tool_counts["x"] = 1
    /\ MarkerCount("x") = 1 /\ MarkerCount("w") = 0
    /\ IsPrefix(UsedMarker("x"), reasoning)
    /\ Len(reasoning) > Len(UsedMarker("x"))
\* a step of the main loop: the first status draft is out, the stream is open
StreamingStep == pc = "streaming" /\ pc' \in {"streaming", "finalizing"}

\* C31: during streaming final_content_confirmed becomes true only in a
\* render pass in which the trimmed unsent answer is longer than
\* FINAL_CONTENT_MIN_LENGTH (seen in the steps that leave the loop running,
\* whose answer the except branch has not replaced), and the preview surface shows an answer preview
\* only while final_content_confirmed is true.
C31_ConfirmedOnlyAboveThreshold ==
    [][StreamingStep =>
         /\ (~final_content_confirmed /\ final_content_confirmed'
                                      /\ pc' = "streaming") =>
              /\ rendered'
              /\ Len(strip(UnsentAnswer')) > FINAL_CONTENT_MIN_LENGTH
         /\ (pc' = "streaming" /\ draft_shows' = "answer")
              => final_content_confirmed']_vars

\* C31 amended: final_content_confirmed becomes true only in a render pass
\* in which the trimmed unsent answer is at least FINAL_CONTENT_MIN_LENGTH
\* long, that length included; the preview surface shows an answer preview
\* only while final_content_confirmed is true, and a render pass that leaves
\* it false writes no answer preview.
C31_ConfirmedOnlyFromThreshold ==
    [][StreamingStep =>
         /\ (~final_content_confirmed /\ final_content_confirmed'
                                      /\ pc' = "streaming") =>
              /\ rendered'
              /\ Len(strip(UnsentAnswer')) >= FINAL_CONTENT_MIN_LENGTH
         /\ (pc' = "streaming" /\ draft_shows' = "answer")
              => final_content_confirmed'
         /\ (~final_content_confirmed' /\ draft_shows' = "answer")
              => (draft' = draft /\ draft_shows = "answer")]_vars

\* the answer was confirmed with an unsent answer of exactly
\* FINAL_CONTENT_MIN_LENGTH characters, and the preview shows it
C31_ConfirmedAtExactlyThreshold ==
    /\ pc = "streaming"
    /\ final_content_confirmed
    /\ Len(strip(UnsentAnswer)) = FINAL_CONTENT_MIN_LENGTH
    /\ sent_parts = <<>>
    /\ draft_shows = "answer"
    /\ draft = convert_to_telegram_markdown(UnsentAnswer)
SetMin(S) == CHOOSE x \in S : \A y \in S : x <= y

\* the final flush cut the answer between the fragments i and i + 1 without
\* dropping a character: the cut is in the middle of a word
CutInsideWord(i) ==
    /\ i < Len(outbox)
    /\ outbox[i].by = "final_content" /\ outbox[i + 1].by = "final_content"
    /\ outbox[i].pos # {} /\ outbox[i + 1].pos # {}
    /\ SetMax(outbox[i].pos) + 1 = SetMin(outbox[i + 1].pos)

\* a word boundary lies in the fragment beyond a third of the ceiling
BoundaryBeyondThird(fragment) ==
    \E p \in 0..(Len(fragment) - 1) :
        3 * p > SAFE_MESSAGE_LENGTH /\ IsSpace(fragment[p + 1])

\* C32: in the final flush a cut in the middle of a word is made between two
\* fragments only when the fragment that is cut off holds no boundary beyond
\* a third of the ceiling.
C32_FinalFlushCutsAtBoundaries ==
    \A i \in DOMAIN outbox :
        (error = "none" /\ CutInsideWord(i)) => ~BoundaryBeyondThird(outbox[i].asked)
IsSuffix(p, s) == Len(p) <= Len(s) /\ SubSeq(s, Len(s) - Len(p) + 1, Len(s)) = p

\* C33: with show_thinking, in a generation in which the platform refused
\* no call, every permanent reasoning message is the whole collapsed quote
\* of the reasoning it finalizes: nothing of the quote is cut off, it starts
\* with the foldable start marker and ends with the closing marker.
C33_ReasoningMessagesAreWholeQuotes ==
    \A m \in Messages :
        (show_thinking /\ faults = 0 /\ m.kind = "thinking") =>
            /\ m.raw = m.asked
            /\ m.text = m.asked
            /\ IsPrefix(<<"*", "*", ">">>, m.text)
            /\ IsSuffix(<<"|", "|">>, m.text)
\* the preview shows the status line of the tool
StatusLineShown(shown, tool) == Contains(shown, <<"\\", "#", tool>>)

\* C35: while a tool is pending and the preview shows its status line, a
\* stall refresh that the platform accepts leaves the status line on the
\* preview.
C35_ToolStatusSurvivesStall ==
    [][(/\ TimeoutStep /\ faults' = faults
        /\ pending_tool # NoTool
        /\ StatusLineShown(draft, pending_tool))
         => StatusLineShown(draft', pending_tool)]_vars
\* the quote inside a collapsed reasoning block: the block without its
\* foldable start marker and its closing marker
QuoteOf(collapsed) == SubSeq(collapsed, 3, Len(collapsed) - 2)

\* a reasoning block that the finalization inside a content overflow
\* delivered, whole
IsFinalizedReasoning(m) ==
    m.by = "content_overflow" /\ m.kind = "thinking" /\ m.raw = m.asked

\* C36: once the finalization inside a content overflow has delivered the
\* unsent reasoning in a permanent message, no later preview update shows
\* that reasoning again.  (Reasoning delivered by a reasoning overflow is
\* recorded in sent_thinking_parts and leaves current_thinking, from which
\* every preview is built.)
C36_NoStaleReasoningInPreview ==
    [][\A i \in DOMAIN outbox :
         (IsFinalizedReasoning(outbox[i]) /\ draft' # draft /\ faults' = 0)
            => ~IsPrefix(QuoteOf(outbox[i].raw), draft')]_vars
\* what _send_draft_with_fallback leaves on the preview surface for a text,
\* with the platform accepting the call or rejecting its formatting once
SurfaceTexts(text, has_formatted, formatted) ==
    {_send_draft_with_fallback([State EXCEPT !.script = sc], text,
                               has_formatted, formatted).draft :
        sc \in {<<>>, <<"parse">>}}

\* the status lines: the thinking status and the status of a tool event
StatusTexts ==
    {ThinkingStatus}
    \cup {_get_tool_status_text(n, k) : n \in ToolNames, k \in 1..MaxChunks}

\* the preview shows a status line, and nothing else
ShowsStatusLine(shown) ==
    \E t \in StatusTexts : shown \in SurfaceTexts(t, FALSE, <<>>)

\* the preview shows the text, an answer preview or a first final fragment
ShowsAnswerText(shown, text) ==
    \E reopened \in {text, REOPEN \o text} :
        shown \in SurfaceTexts(Take(reopened, SAFE_MESSAGE_LENGTH), TRUE,
                     convert_to_telegram_markdown(Take(reopened, SAFE_MESSAGE_LENGTH)))

\* C37: with show_thinking off, every permanent message is an answer message
\* that carries none of the answer text a tool event moved into the
\* reasoning (no reasoning block, no marker), and every preview update shows
\* a status line or unsent answer text: during streaming the unsent answer,
\* in the final flush, which updates the preview only when no tool event
\* moved text, the first final fragment.
C37_ShowThinkingOffHidesReasoning ==
    [][~show_thinking =>
         /\ \A i \in DOMAIN outbox' :
              /\ outbox'[i].kind = "answer"
              /\ error' = "none" => outbox'[i].pos \cap moved' = {}
         /\ (draft' # draft /\ pc' = "streaming") =>
              \/ ShowsStatusLine(draft')
              \/ ShowsAnswerText(draft', UnsentAnswer')
         /\ (draft' # draft /\ pc = "finalizing") =>
              /\ moved = {}
              /\ outbox' # outbox => ShowsAnswerText(draft', outbox'[1].asked)]_vars

\* the same without the promise that the final flush leaves the moved text
\* out of the permanent messages
C37_HiddenButForResentMovedText ==
    [][~show_thinking =>
         /\ \A i \in DOMAIN outbox' : outbox'[i].kind = "answer"
         /\ (draft' # draft /\ pc' = "streaming") =>
              \/ ShowsStatusLine(draft')
              \/ ShowsAnswerText(draft', UnsentAnswer')
         /\ (draft' # draft /\ pc = "finalizing") =>
              /\ moved = {}
              /\ outbox' # outbox => ShowsAnswerText(draft', outbox'[1].asked)]_vars

\* the chunks among the events the wrapper has yielded
YieldedChunks == [i \in DOMAIN SelectSeq(it_events, IsChunkEvent) |->
                     SelectSeq(it_events, IsChunkEvent)[i].chunk]

OutstandingAnext == {i \in DOMAIN it_tasks : it_tasks[i].state = "pending"}

StreamEnded == \E i \in DOMAIN it_tasks : it_tasks[i].result.kind \in {"stop", "raise"}

TimeoutYielded ==
    /\ Len(it_events') = Len(it_events) + 1
    /\ it_events'[Len(it_events')].is_timeout

\* C34: _iter_with_timeout yields the chunks of the stream once each and in
\* the stream's order (what it has yielded is always a prefix of the stream,
\* and the whole stream once it returned); a chunk the stream handed out is
\* either yielded or held by the finished pending task; at most one
\* __anext__ task is outstanding; the wrapper ends only when the stream has
\* ended and as soon as the end is retrieved; a timeout event is yielded only
\* while the fetch is still pending, and leaves that fetch in place.
C34_TimeoutWrapperPreservesStream ==
    /\ [](/\ Len(YieldedChunks) <= Len(it_stream)
          /\ YieldedChunks = SubSeq(it_stream, 1, Len(YieldedChunks))
          /\ Cardinality(OutstandingAnext) <= 1
          /\ Given(it_tasks) - Len(YieldedChunks) \in {0, 1}
          /\ Given(it_tasks) - Len(YieldedChunks) = 1 =>
                /\ pending_task # 0
                /\ it_tasks[pending_task].result =
                       [kind |-> "chunk", chunk |-> it_stream[Given(it_tasks)]]
          /\ it_pc \in {"returned", "raised"} =>
                (StreamEnded /\ YieldedChunks = it_stream)
          /\ it_pc = "returned" <=> (it_ends = "stop" /\ StreamEnded /\ pending_task = 0)
          /\ it_pc = "raised" <=> (it_ends = "raise" /\ StreamEnded /\ pending_task = 0))
    /\ [][TimeoutYielded =>
             /\ it_tasks[pending_task].state = "pending"
             /\ pending_task' = pending_task
             /\ it_tasks' = it_tasks]_vars

\* the stream was iterated to its end with a timeout between two of its chunks
C34_TimeoutBetweenChunks ==
    /\ it_pc = "returned"
    /\ Len(it_stream) = MaxStream
    /\ \E i \in 2..(Len(it_events) - 1) :
          /\ it_events[i].is_timeout
          /\ ~it_events[i - 1].is_timeout
          /\ ~it_events[i + 1].is_timeout

\* C38: every call of new_draft_id leaves draft_id different from its value
\* before the call, whatever the time elapsed since that value was generated.
C38_RotationYieldsFreshId ==
    [][id_rotations' = id_rotations + 1 => draft_id' # draft_id]_vars

\* the photos whose _queue_media_group call has returned
AcceptedPhotos == {mg_calls[c].photo : c \in {d \in DOMAIN mg_calls : mg_calls[d].pc = "done"}}

InSeq(x, s) == \E i \in DOMAIN s : s[i] = x

\* the buffers, the flush tasks and the payloads a photo is found in
BuffersWith(p) == {b \in DOMAIN mg_heap : InSeq(p, mg_heap[b].image_ids)}

PayloadsWith(p) == {h \in DOMAIN mg_handled : InSeq(p, mg_handled[h].image_ids)}

PayloadsOf(b) == {h \in DOMAIN mg_handled : mg_handled[h].buffer = b}

FlushesHolding(b) == {f \in DOMAIN mg_flushes : mg_flushes[f].buffer = b}

IsBuffered(b) == mg_groups[mg_heap[b].key] = b

\* C39: every accepted photo is in exactly one buffer, once; that buffer is
\* still in _MEDIA_GROUPS, or held by the one flush task that removed it and
\* is about to hand it on, or was handed to exactly one
\* _handle_incoming_payload call whose images include the photo; no buffer
\* is handed on twice; there are as many flush tasks as buffers, and each
\* buffer in _MEDIA_GROUPS has exactly one flush task that has not yet
\* removed it; a buffer that is out of _MEDIA_GROUPS no longer changes.
C39_MediaGroupsProcessedOnce ==
    /\ [](/\ \A p \in AcceptedPhotos :
                /\ Cardinality(BuffersWith(p)) = 1
                /\ Cardinality(PayloadsWith(p)) <= 1
                /\ \A b \in BuffersWith(p) :
                      /\ Len(SelectSeq(mg_heap[b].image_ids, LAMBDA x : x = p)) = 1
                      /\ \/ IsBuffered(b) /\ PayloadsOf(b) = {} /\ FlushesHolding(b) = {}
                         \/ /\ ~IsBuffered(b)
                            /\ Cardinality(FlushesHolding(b)) = 1
                            /\ \A f \in FlushesHolding(b) :
                                  \/ mg_flushes[f].pc = "handle" /\ PayloadsOf(b) = {}
                                  \/ /\ mg_flushes[f].pc = "done"
                                     /\ Cardinality(PayloadsOf(b)) = 1
                                     /\ PayloadsOf(b) = PayloadsWith(p)
          /\ \A b \in DOMAIN mg_heap : Cardinality(PayloadsOf(b)) <= 1
          /\ Len(mg_flushes) = Len(mg_heap)
          /\ \A k \in MediaKeys :
                Cardinality({f \in DOMAIN mg_flushes :
                                /\ mg_flushes[f].key = k
                                /\ mg_flushes[f].pc \in {"sleep", "lock", "pop"}})
                    = IF mg_groups[k] = 0 THEN 0 ELSE 1)
    /\ [][\A b \in DOMAIN mg_heap : ~IsBuffered(b) => mg_heap'[b] = mg_heap[b]]_vars

\* a group was flushed with two photos, and a later photo of the same group
\* opened a second buffer that was flushed on its own
C39_LateArrivalFlushedSeparately ==
    /\ Len(mg_handled) = 2
    /\ Len(mg_handled[1].image_ids) = 2
    /\ mg_heap[mg_handled[1].buffer].key = mg_heap[mg_handled[2].buffer].key
    /\ Cardinality(AcceptedPhotos) = MaxPhotos
    /\ \A f \in DOMAIN mg_flushes : mg_flushes[f].pc = "done"

\* C40: a code with max_uses = N admits at most N users, also when several
\* redemptions run concurrently in separate sessions; current_uses never
\* exceeds max_uses and equals the number of users admitted with the code.
C40_InviteLimitUnderConcurrency ==
    /\ inv_admitted <= inv_max_uses
    /\ inv_current_uses <= inv_max_uses
    /\ inv_current_uses = inv_admitted
=============================================================================
